---- MODULE Spec2Model ----
(***************************************************************************)
(* A model of the example programs of the repository.  The repository is   *)
(* a collection of independent snippets; the variable "running" names the  *)
(* snippet that is executing, and each snippet has its own variables.      *)
(***************************************************************************)
EXTENDS Integers, Sequences, FiniteSets, TLC

VARIABLES
    running,    \* the snippet being executed
    bag,        \* Tombola demo: the bag object [cls, has, items]
    given,      \* Tombola demo: every item handed to the constructor / load()
    drawn,      \* Tombola demo: every item a client pick() / call returned
    last,       \* Tombola demo: the outcome of the last operation
    dq,         \* deque demo: the deque
    dqPrev,     \* deque demo: the deque before the last statement
    dqLine,     \* deque demo: the line of the last statement executed
    fibCache,   \* fibonacci demo: the cache kept by functools.cache
    fibLast,    \* fibonacci demo: the last top-level call and the body runs it made
    registry,   \* register demo: the module-level list
    regLine,    \* register demo: the line of the last statement executed
    calls,      \* register demo: the functions invoked so far, in order
    cells,      \* averager demo: the closure cells allocated so far
    averagers,  \* averager demo: the closures returned by make_averager()
    avgHist,    \* averager demo: the values passed to each averager
    avgLast,    \* averager demo: the last call and what it returned
    heap,       \* bus demo: the list objects, by identity
    buses,      \* bus demo: the bus instances
    busOps,     \* bus demo: number of pick/drop calls made
    teams,      \* bus demo: the lists callers handed to TwilightBus / TwilightBusFix
    placed,     \* promotions demo: the order placed
    dues,       \* promotions demo: due() of the order under each promotion
    best,       \* promotions demo: best_promo(order)
    members,    \* club demo: the HackerClubMember instances constructed
    all_handles,\* club demo: HackerClubMember.all_handles
    clubLast,   \* club demo: the last construction attempted and its outcome
    mroCall,    \* super() demo: the instance's class and the method called on it
    frame,      \* super() demo: the class whose method body runs next, or how the call ended
    trace,      \* super() demo: the classes whose method body has printed, in order
    dd,         \* DoppelDict demo: the mapping object [cls, data]
    ddLog,      \* DoppelDict demo: for each key, the value last given and the path it took
    ud,         \* UpperDict demo: the data of the UpperDict
    udLast,     \* UpperDict demo: the last operation and its outcome
    od,         \* LastUpdatedOrderedDict demo: the pairs in iteration order
    odLast,     \* LastUpdatedOrderedDict demo: the last assignment and its outcome
    vec,        \* Vector demo: the vector [cls, components]
    vecLast,    \* Vector demo: the last operation and its outcome
    hashPrev,   \* Vector demo: the hash computed before the last one
    vobj,       \* Vector attribute demo: the vector [cls, components, attrs]
    vout,       \* Vector attribute demo: the last operation and its outcome
    v2d,        \* Vector2d demo: the instance [x, y]
    v2dLast,    \* Vector2d demo: the last operation and its outcome
    deck,       \* FrenchDeck demo: the deck [cls, cards]
    deckLast,   \* FrenchDeck demo: the last operation and its outcome
    skd,        \* StrKeyDict demo: the mapping
    skdLast,    \* StrKeyDict demo: the last operation and its outcome
    maxLast,    \* max demo: the last call and its outcome
    picker,     \* SimplePicker demo: the picker [made, data]
    pickLast    \* SimplePicker demo: the items supplied, those returned, the last outcome

tombolaVars == <<bag, given, drawn, last>>
dequeVars == <<dq, dqPrev, dqLine>>
fibVars == <<fibCache, fibLast>>
registerVars == <<registry, regLine, calls>>
averagerVars == <<cells, averagers, avgHist, avgLast>>
busVars == <<heap, buses, busOps, teams>>
promoVars == <<placed, dues, best>>
clubVars == <<members, all_handles, clubLast>>
mroVars == <<mroCall, frame, trace>>
doppelVars == <<dd, ddLog>>
upperVars == <<ud, udLast>>
luodVars == <<od, odLast>>
vectorVars == <<vec, vecLast, hashPrev>>
vattrVars == <<vobj, vout>>
v2dVars == <<v2d, v2dLast>>
deckVars == <<deck, deckLast>>
skdVars == <<skd, skdLast>>
maxVars == <<maxLast>>
pickerVars == <<picker, pickLast>>
vars ==
    <<running, tombolaVars, dequeVars, fibVars, registerVars, averagerVars, busVars, promoVars,
      clubVars, mroVars, doppelVars, upperVars, luodVars, vectorVars, vattrVars, v2dVars, deckVars, skdVars, maxVars, pickerVars>>

\* what the statements of one snippet leave alone
OthersThanTombola ==
    <<running, dequeVars, fibVars, registerVars, averagerVars, busVars, promoVars, clubVars,
      mroVars, doppelVars, upperVars, luodVars, vectorVars, vattrVars, v2dVars, deckVars, skdVars, maxVars, pickerVars>>
OthersThanDeque ==
    <<running, tombolaVars, fibVars, registerVars, averagerVars, busVars, promoVars, clubVars,
      mroVars, doppelVars, upperVars, luodVars, vectorVars, vattrVars, v2dVars, deckVars, skdVars, maxVars, pickerVars>>
OthersThanFib ==
    <<running, tombolaVars, dequeVars, registerVars, averagerVars, busVars, promoVars, clubVars,
      mroVars, doppelVars, upperVars, luodVars, vectorVars, vattrVars, v2dVars, deckVars, skdVars, maxVars, pickerVars>>
OthersThanRegister ==
    <<running, tombolaVars, dequeVars, fibVars, averagerVars, busVars, promoVars, clubVars,
      mroVars, doppelVars, upperVars, luodVars, vectorVars, vattrVars, v2dVars, deckVars, skdVars, maxVars, pickerVars>>
OthersThanAverager ==
    <<running, tombolaVars, dequeVars, fibVars, registerVars, busVars, promoVars, clubVars,
      mroVars, doppelVars, upperVars, luodVars, vectorVars, vattrVars, v2dVars, deckVars, skdVars, maxVars, pickerVars>>
OthersThanBus ==
    <<running, tombolaVars, dequeVars, fibVars, registerVars, averagerVars, promoVars, clubVars,
      mroVars, doppelVars, upperVars, luodVars, vectorVars, vattrVars, v2dVars, deckVars, skdVars, maxVars, pickerVars>>
OthersThanPromo ==
    <<running, tombolaVars, dequeVars, fibVars, registerVars, averagerVars, busVars, clubVars,
      mroVars, doppelVars, upperVars, luodVars, vectorVars, vattrVars, v2dVars, deckVars, skdVars, maxVars, pickerVars>>
OthersThanClub ==
    <<running, tombolaVars, dequeVars, fibVars, registerVars, averagerVars, busVars, promoVars,
      mroVars, doppelVars, upperVars, luodVars, vectorVars, vattrVars, v2dVars, deckVars, skdVars, maxVars, pickerVars>>
OthersThanMro ==
    <<running, tombolaVars, dequeVars, fibVars, registerVars, averagerVars, busVars, promoVars,
      clubVars, doppelVars, upperVars, luodVars, vectorVars, vattrVars, v2dVars, deckVars, skdVars, maxVars, pickerVars>>
OthersThanDoppel ==
    <<running, tombolaVars, dequeVars, fibVars, registerVars, averagerVars, busVars, promoVars,
      clubVars, mroVars, upperVars, luodVars, vectorVars, vattrVars, v2dVars, deckVars, skdVars, maxVars, pickerVars>>
OthersThanUpper ==
    <<running, tombolaVars, dequeVars, fibVars, registerVars, averagerVars, busVars, promoVars,
      clubVars, mroVars, doppelVars, luodVars, vectorVars, vattrVars, v2dVars, deckVars, skdVars, maxVars, pickerVars>>
OthersThanLuod ==
    <<running, tombolaVars, dequeVars, fibVars, registerVars, averagerVars, busVars, promoVars,
      clubVars, mroVars, doppelVars, upperVars, vectorVars, vattrVars, v2dVars, deckVars, skdVars, maxVars, pickerVars>>
OthersThanVector ==
    <<running, tombolaVars, dequeVars, fibVars, registerVars, averagerVars, busVars, promoVars,
      clubVars, mroVars, doppelVars, upperVars, luodVars, vattrVars, v2dVars, deckVars, skdVars, maxVars, pickerVars>>
OthersThanVattr ==
    <<running, tombolaVars, dequeVars, fibVars, registerVars, averagerVars, busVars, promoVars,
      clubVars, mroVars, doppelVars, upperVars, luodVars, vectorVars, v2dVars, deckVars, skdVars, maxVars, pickerVars>>
OthersThanV2d ==
    <<running, tombolaVars, dequeVars, fibVars, registerVars, averagerVars, busVars, promoVars,
      clubVars, mroVars, doppelVars, upperVars, luodVars, vectorVars, vattrVars, deckVars, skdVars, maxVars, pickerVars>>
OthersThanDeck ==
    <<running, tombolaVars, dequeVars, fibVars, registerVars, averagerVars, busVars, promoVars,
      clubVars, mroVars, doppelVars, upperVars, luodVars, vectorVars, vattrVars, v2dVars, skdVars, maxVars, pickerVars>>
OthersThanSkd ==
    <<running, tombolaVars, dequeVars, fibVars, registerVars, averagerVars, busVars, promoVars,
      clubVars, mroVars, doppelVars, upperVars, luodVars, vectorVars, vattrVars, v2dVars, deckVars, maxVars, pickerVars>>
OthersThanMax ==
    <<running, tombolaVars, dequeVars, fibVars, registerVars, averagerVars, busVars, promoVars,
      clubVars, mroVars, doppelVars, upperVars, luodVars, vectorVars, vattrVars, v2dVars, deckVars, skdVars, pickerVars>>
OthersThanPicker ==
    <<running, tombolaVars, dequeVars, fibVars, registerVars, averagerVars, busVars, promoVars,
      clubVars, mroVars, doppelVars, upperVars, luodVars, vectorVars, vattrVars, v2dVars, deckVars, skdVars, maxVars>>

(***************************************************************************)
(* Bounds                                                                  *)
(***************************************************************************)
MaxItem == 2        \* items are drawn from 1..MaxItem
MaxBatch == 2       \* longest iterable handed to a constructor or load()
MaxGiven == 3       \* most items handed to one bag over its life

Items == 1 .. MaxItem

RECURSIVE SeqsUpTo(_, _)
SeqsUpTo(S, n) ==
    IF n = 0 THEN {<<>>}
    ELSE LET shorter == SeqsUpTo(S, n - 1)
         IN  shorter \cup {Append(s, x) : s \in {t \in shorter : Len(t) = n - 1}, x \in S}

Iterables == SeqsUpTo(Items, MaxBatch)

Range(s) == {s[i] : i \in DOMAIN s}

Count(s, x) == Cardinality({i \in DOMAIN s : s[i] = x})

\* the multiset of the items of a sequence
BagOf(s) == [x \in Items |-> Count(s, x)]

EmptyBag == [x \in Items |-> 0]

BagSize(b) == LET RECURSIVE Sum(_)
                  Sum(S) == IF S = {} THEN 0
                            ELSE LET x == CHOOSE y \in S : TRUE
                                 IN  b[x] + Sum(S \ {x})
              IN  Sum(Items)

BagLeq(a, b) == \A x \in Items : a[x] <= b[x]

\* two sequences hold the same multiset of items
SameItems(s, t) == BagOf(s) = BagOf(t)

(***************************************************************************)
(* Python list primitives used by the snippets                             *)
(***************************************************************************)
\* random.shuffle / SystemRandom.shuffle: any permutation of the list
Shuffle(s) == {t \in [DOMAIN s -> Range(s)] : SameItems(s, t)}

\* list.pop(): the last element, IndexError on an empty list
ListPop(s) ==
    IF s = <<>> THEN [exc |-> "IndexError", val |-> 0, rest |-> s]
    ELSE [exc |-> "none", val |-> s[Len(s)], rest |-> SubSeq(s, 1, Len(s) - 1)]

\* list.pop(position) for a position in range (0-based)
ListPopAt(s, position) ==
    [exc |-> "none", val |-> s[position + 1],
     rest |-> SubSeq(s, 1, position) \o SubSeq(s, position + 2, Len(s))]

\* random.randrange(n): ValueError for n = 0, otherwise any of 0 .. n-1
RandRange(n) ==
    IF n = 0 THEN {[exc |-> "ValueError", val |-> 0]}
    ELSE {[exc |-> "none", val |-> p] : p \in 0 .. n - 1}

(***************************************************************************)
(* The Tombola bags (chapter 13) and the callable BingoCage (chapter 7).   *)
(* An object is [cls, has, items]: its class, whether its storage          *)
(* attribute (_items / _balls; the list itself for TomboList) is bound,    *)
(* and the list stored there.  A method yields the set of its possible     *)
(* outcomes [exc, kind, seq, b, obj]: the exception raised ("none" for a   *)
(* normal return), the kind of value returned, the value (an item as a     *)
(* one-element sequence, a tuple as a sequence, a bool in b) and the       *)
(* object afterwards.                                                      *)
(***************************************************************************)
Classes == {"BingoCage", "LottoBlower", "TomboList", "FirstClassBingoCage"}

Raise(e, obj) == [exc |-> e, kind |-> "None", seq |-> <<>>, b |-> FALSE, obj |-> obj]

ReturnItem(x, obj) == [exc |-> "none", kind |-> "item", seq |-> <<x>>, b |-> FALSE, obj |-> obj]

ReturnTuple(t, obj) == [exc |-> "none", kind |-> "tuple", seq |-> t, b |-> FALSE, obj |-> obj]

ReturnBool(v, obj) == [exc |-> "none", kind |-> "bool", seq |-> <<>>, b |-> v, obj |-> obj]

ReturnNone(obj) == [exc |-> "none", kind |-> "None", seq |-> <<>>, b |-> FALSE, obj |-> obj]

\* ---- class BingoCage(Tombola) ----
BingoCage_load(obj, iterable) ==
    {ReturnNone([obj EXCEPT !.items = t]) : t \in Shuffle(obj.items \o iterable)}

BingoCage_init(iterable) ==
    BingoCage_load([cls |-> "BingoCage", has |-> TRUE, items |-> <<>>], iterable)

BingoCage_pick_NoCatch(obj) ==
    LET p == ListPop(obj.items)
    IN  IF p.exc = "IndexError" THEN {Raise("IndexError", obj)}
        ELSE {ReturnItem(p.val, [obj EXCEPT !.items = p.rest])}

BingoCage_pick(obj) ==
    LET p == ListPop(obj.items)
    IN  IF p.exc = "IndexError" THEN {Raise("LookupError", obj)}
        ELSE {ReturnItem(p.val, [obj EXCEPT !.items = p.rest])}

\* __call__ runs pick() and drops what it returned
BingoCage_call(obj) ==
    {IF o.exc = "none" THEN ReturnNone(o.obj) ELSE o : o \in BingoCage_pick(obj)}

\* ---- class LottoBlower(Tombola) ----
\* __init__ binds the local name self_balls; no attribute of self is bound
LottoBlower_init(iterable) ==
    {ReturnNone([cls |-> "LottoBlower", has |-> FALSE, items |-> <<>>])}

LottoBlower_load(obj, iterable) ==
    IF ~obj.has THEN {Raise("AttributeError", obj)}
    ELSE {ReturnNone([obj EXCEPT !.items = obj.items \o iterable])}

\* the try block covers len(self._balls) and randrange; only ValueError is caught
LottoBlower_pick(obj) ==
    IF ~obj.has THEN {Raise("AttributeError", obj)}
    ELSE {IF r.exc = "ValueError" THEN Raise("LookupError", obj)
          ELSE LET p == ListPopAt(obj.items, r.val)
               IN  ReturnItem(p.val, [obj EXCEPT !.items = p.rest])
          : r \in RandRange(Len(obj.items))}

LottoBlower_loaded(obj) ==
    IF ~obj.has THEN {Raise("AttributeError", obj)}
    ELSE {ReturnBool(obj.items # <<>>, obj)}

LottoBlower_inspect(obj) ==
    IF ~obj.has THEN {Raise("AttributeError", obj)}
    ELSE {ReturnTuple(obj.items, obj)}

\* ---- class TomboList(list) ----
TomboList_init(iterable) ==
    {ReturnNone([cls |-> "TomboList", has |-> TRUE, items |-> iterable])}

TomboList_pick(obj) ==
    IF obj.items # <<>>
    THEN {LET p == ListPopAt(obj.items, r.val)
          IN  ReturnItem(p.val, [obj EXCEPT !.items = p.rest])
          : r \in RandRange(Len(obj.items))}
    ELSE {Raise("LookupError", obj)}

\* load = list.extend
TomboList_load(obj, iterable) ==
    {ReturnNone([obj EXCEPT !.items = obj.items \o iterable])}

TomboList_loaded(obj) == {ReturnBool(obj.items # <<>>, obj)}

TomboList_inspect(obj) == {ReturnTuple(obj.items, obj)}

\* ---- class BingoCage of chapter 7 (a callable, not a Tombola) ----
FirstClassBingoCage_init(iterable) ==
    {ReturnNone([cls |-> "FirstClassBingoCage", has |-> TRUE, items |-> t])
     : t \in Shuffle(iterable)}

FirstClassBingoCage_pick(obj) ==
    LET p == ListPop(obj.items)
    IN  IF p.exc = "IndexError" THEN {Raise("LookupError", obj)}
        ELSE {ReturnItem(p.val, [obj EXCEPT !.items = p.rest])}

FirstClassBingoCage_call(obj) == FirstClassBingoCage_pick(obj)

\* ---- method lookup on the object's class ----
Construct(c, iterable) ==
    CASE c = "BingoCage" -> BingoCage_init(iterable)
      [] c = "LottoBlower" -> LottoBlower_init(iterable)
      [] c = "TomboList" -> TomboList_init(iterable)
      [] c = "FirstClassBingoCage" -> FirstClassBingoCage_init(iterable)

Pick(obj) ==
    CASE obj.cls = "BingoCage" -> BingoCage_pick(obj)
      [] obj.cls = "LottoBlower" -> LottoBlower_pick(obj)
      [] obj.cls = "TomboList" -> TomboList_pick(obj)
      [] obj.cls = "FirstClassBingoCage" -> FirstClassBingoCage_pick(obj)

Load(obj, iterable) ==
    CASE obj.cls = "BingoCage" -> BingoCage_load(obj, iterable)
      [] obj.cls = "LottoBlower" -> LottoBlower_load(obj, iterable)
      [] obj.cls = "TomboList" -> TomboList_load(obj, iterable)

Call(obj) ==
    CASE obj.cls = "BingoCage" -> BingoCage_call(obj)
      [] obj.cls = "FirstClassBingoCage" -> FirstClassBingoCage_call(obj)

\* ---- the generic methods of the Tombola ABC ----
\* the while-True loop of inspect(): at most `fuel` passes are followed;
\* done = FALSE marks a loop that is still running after them
RECURSIVE InspectLoop(_, _, _)
InspectLoop(obj, items, fuel) ==
    IF fuel = 0 THEN {[done |-> FALSE, exc |-> "none", obj |-> obj, items |-> items]}
    ELSE UNION {
        IF o.exc = "none" THEN InspectLoop(o.obj, Append(items, o.seq[1]), fuel - 1)
        ELSE IF o.exc = "LookupError"
        THEN {[done |-> TRUE, exc |-> "none", obj |-> o.obj, items |-> items]}
        ELSE {[done |-> TRUE, exc |-> o.exc, obj |-> o.obj, items |-> items]}
        : o \in Pick(obj)}

\* passes of the loop that a bag of this size needs: one per item, one to fail
InspectFuel(obj) == Len(obj.items) + 1

\* inspect() without the final self.load(items)
Tombola_inspect_NoReload(obj) ==
    UNION {
        IF ~l.done THEN {Raise("NoReturn", l.obj)}
        ELSE IF l.exc # "none" THEN {Raise(l.exc, l.obj)}
        ELSE {ReturnTuple(l.items, l.obj)}
        : l \in InspectLoop(obj, <<>>, InspectFuel(obj))}

\* inspect() without the try / except LookupError around pick()
Tombola_inspect_NoExcept(obj) ==
    UNION {
        IF ~l.done THEN {Raise("NoReturn", l.obj)}
        ELSE {Raise(IF l.exc = "none" THEN "LookupError" ELSE l.exc, l.obj)}
        : l \in InspectLoop(obj, <<>>, InspectFuel(obj))}

Tombola_inspect(obj) ==
    UNION {
        IF ~l.done THEN {Raise("NoReturn", l.obj)}
        ELSE IF l.exc # "none" THEN {Raise(l.exc, l.obj)}
        ELSE {IF o.exc = "none" THEN ReturnTuple(l.items, o.obj) ELSE o
              : o \in Load(l.obj, l.items)}
        : l \in InspectLoop(obj, <<>>, InspectFuel(obj))}

Tombola_loaded(obj) ==
    {IF o.exc = "none" THEN ReturnBool(o.seq # <<>>, o.obj) ELSE o
     : o \in Tombola_inspect(obj)}

Inspect(obj) ==
    CASE obj.cls = "BingoCage" -> Tombola_inspect(obj)
      [] obj.cls = "LottoBlower" -> LottoBlower_inspect(obj)
      [] obj.cls = "TomboList" -> TomboList_inspect(obj)

Loaded(obj) ==
    CASE obj.cls = "BingoCage" -> Tombola_loaded(obj)
      [] obj.cls = "LottoBlower" -> LottoBlower_loaded(obj)
      [] obj.cls = "TomboList" -> TomboList_loaded(obj)

TombolaClasses == {"BingoCage", "LottoBlower", "TomboList"}

CallableClasses == {"BingoCage", "FirstClassBingoCage"}

(***************************************************************************)
(* Client operations on the bag of the Tombola demo                        *)
(***************************************************************************)
NoBag == [cls |-> "none", has |-> FALSE, items |-> <<>>]

NoOp == [op |-> "none", exc |-> "none", kind |-> "None", seq |-> <<>>,
         b |-> FALSE, pre |-> <<>>]

Outcome(name, o, pre) ==
    [op |-> name, exc |-> o.exc, kind |-> o.kind, seq |-> o.seq, b |-> o.b, pre |-> pre]

\* the items an operation took out of the bag
Removed(pre, post) == [x \in Items |-> IF Count(pre, x) > Count(post, x)
                                       THEN Count(pre, x) - Count(post, x) ELSE 0]

BagSum(a, b) == [x \in Items |-> a[x] + b[x]]

TombolaInit ==
    /\ bag = NoBag
    /\ given = EmptyBag
    /\ drawn = EmptyBag
    /\ last = NoOp

\* bag = C(iterable)
New(c, iterable) ==
    /\ running = "Tombola"
    /\ bag.cls = "none"
    /\ \E o \in Construct(c, iterable) :
          /\ bag' = o.obj
          /\ last' = Outcome("new", o, <<>>)
    /\ given' = BagOf(iterable)
    /\ UNCHANGED <<drawn>>
    /\ UNCHANGED OthersThanTombola

\* bag.pick()
DoPick ==
    /\ running = "Tombola"
    /\ bag.cls \in Classes
    /\ \E o \in Pick(bag) :
          /\ bag' = o.obj
          /\ last' = Outcome("pick", o, bag.items)
          /\ drawn' = BagSum(drawn, Removed(bag.items, o.obj.items))
    /\ UNCHANGED <<given>>
    /\ UNCHANGED OthersThanTombola

\* bag()
DoCall ==
    /\ running = "Tombola"
    /\ bag.cls \in CallableClasses
    /\ \E o \in Call(bag) :
          /\ bag' = o.obj
          /\ last' = Outcome("call", o, bag.items)
          /\ drawn' = BagSum(drawn, Removed(bag.items, o.obj.items))
    /\ UNCHANGED <<given>>
    /\ UNCHANGED OthersThanTombola

\* bag.load(iterable)
DoLoad(iterable) ==
    /\ running = "Tombola"
    /\ bag.cls \in TombolaClasses
    /\ BagSize(given) + Len(iterable) <= MaxGiven
    /\ \E o \in Load(bag, iterable) :
          /\ bag' = o.obj
          /\ last' = Outcome("load", o, bag.items)
          /\ given' = IF o.exc = "none" THEN BagSum(given, BagOf(iterable)) ELSE given
    /\ UNCHANGED <<drawn>>
    /\ UNCHANGED OthersThanTombola

\* bag.inspect()
DoInspect ==
    /\ running = "Tombola"
    /\ bag.cls \in TombolaClasses
    /\ \E o \in Inspect(bag) :
          /\ bag' = o.obj
          /\ last' = Outcome("inspect", o, bag.items)
    /\ UNCHANGED <<given, drawn>>
    /\ UNCHANGED OthersThanTombola

\* bag.loaded()
DoLoaded ==
    /\ running = "Tombola"
    /\ bag.cls \in TombolaClasses
    /\ \E o \in Loaded(bag) :
          /\ bag' = o.obj
          /\ last' = Outcome("loaded", o, bag.items)
    /\ UNCHANGED <<given, drawn>>
    /\ UNCHANGED OthersThanTombola

TombolaNext ==
    \/ \E c \in Classes, iterable \in Iterables : New(c, iterable)
    \/ DoPick
    \/ DoCall
    \/ \E iterable \in Iterables : DoLoad(iterable)
    \/ DoInspect
    \/ DoLoaded

(***************************************************************************)
(* Properties of the Tombola demo                                          *)
(***************************************************************************)
\* what the clients had drawn before the last operation
DrawnBefore == [x \in Items |-> drawn[x] - Removed(last.pre, bag.items)[x]]

\* the bag as it was before the last operation
BagBefore == [bag EXCEPT !.items = last.pre]

\* C1: on a BingoCage or TomboList, a pick() made when as many items were
\* picked as were loaded (K >= 0 of each) raises LookupError, no other error.
C1_ExhaustedPickRaisesLookupError ==
    (/\ bag.cls \in {"BingoCage", "TomboList"}
     /\ last.op = "pick"
     /\ DrawnBefore = given)
    => last.exc = "LookupError"

C1_Witness ==
    /\ bag.cls = "BingoCage"
    /\ last.op = "pick"
    /\ last.exc = "LookupError"
    /\ BagSize(given) >= 2
    /\ drawn = given

\* C2: a LottoBlower built from K items yields each of them once in K
\* successful pick() calls, and the pick() after them raises LookupError.
C2_LottoBlowerHoldsItems ==
    (bag.cls = "LottoBlower" /\ last.op = "pick")
    => IF DrawnBefore = given
       THEN last.exc = "LookupError"
       ELSE /\ last.exc = "none"
            /\ last.kind = "item"
            /\ BagOf(last.seq) = Removed(last.pre, bag.items)
            /\ BagLeq(drawn, given)

\* C3: the generic inspect() of a BingoCage returns (it does not loop for
\* ever or raise), its tuple holds the multiset of items the bag held, and
\* the bag holds that multiset afterwards; the generic loaded() is true iff
\* the bag held at least one item.
C3_InspectSnapshotKeepsItems ==
    /\ (bag.cls = "BingoCage" /\ last.op = "inspect")
       => /\ last.exc = "none"
          /\ last.kind = "tuple"
          /\ SameItems(last.seq, last.pre)
          /\ SameItems(bag.items, last.pre)
    /\ (bag.cls = "BingoCage" /\ last.op = "loaded")
       => /\ last.exc = "none"
          /\ last.kind = "bool"
          /\ last.b = (last.pre # <<>>)

C3_Witness ==
    /\ bag.cls = "BingoCage"
    /\ last.op = "inspect"
    /\ last.exc = "none"
    /\ Len(last.pre) = 3
    /\ Cardinality(Range(last.pre)) = 2
    /\ bag.items # last.pre

\* the case of C4: every loaded item was picked, a further pick() would
\* raise LookupError, and inspect() has just been called
DrainedThenInspected ==
    /\ bag.cls \in TombolaClasses
    /\ last.op = "inspect"
    /\ drawn = given
    /\ \A o \in Pick(BagBefore) : o.exc = "LookupError"

\* C4 (as stated): inspect() on a drained bag returns an empty collection
\* and leaves the bag loaded with the original K items.
C4_InspectAfterDrainRestores ==
    DrainedThenInspected
    => /\ last.exc = "none"
       /\ last.seq = <<>>
       /\ BagOf(bag.items) = given

\* C4 (amended): inspect() on a drained bag returns an empty collection and
\* leaves the bag empty; the K picked items do not come back.
C4_InspectAfterDrainStaysEmpty ==
    DrainedThenInspected
    => /\ last.exc = "none"
       /\ last.kind = "tuple"
       /\ last.seq = <<>>
       /\ bag.items = <<>>

C4_Witness ==
    /\ DrainedThenInspected
    /\ bag.cls = "BingoCage"
    /\ BagSize(given) >= 2
    /\ last.exc = "none"
    /\ bag.items = <<>>

\* C5: calling a BingoCage (either class) removes exactly one item and
\* returns it, and raises LookupError on an exhausted bag.
C5_CallReturnsPickedItem ==
    (bag.cls \in CallableClasses /\ last.op = "call")
    => IF last.pre = <<>>
       THEN last.exc = "LookupError"
       ELSE /\ last.exc = "none"
            /\ last.kind = "item"
            /\ Len(bag.items) = Len(last.pre) - 1
            /\ BagOf(last.seq) = Removed(last.pre, bag.items)
(***************************************************************************)
(* The bounded deque of chapter 2 (collections.deque with maxlen)          *)
(***************************************************************************)
DequeMaxlen == 10

\* range(n) as a list: 0, 1, ..., n-1
PyRange(n) == [i \in 1 .. n |-> i - 1]

\* deque.append(x): a full deque drops its leftmost item
Deque_append(d, x, maxlen) ==
    IF maxlen = 0 THEN <<>>
    ELSE IF Len(d) = maxlen THEN Append(Tail(d), x)
    ELSE Append(d, x)

\* appendleft that makes room at the wrong end of a full deque
Deque_appendleft_EvictLeft(d, x, maxlen) ==
    IF maxlen = 0 THEN <<>>
    ELSE IF Len(d) = maxlen THEN <<x>> \o Tail(d)
    ELSE <<x>> \o d

\* deque.appendleft(x): a full deque drops its rightmost item
Deque_appendleft(d, x, maxlen) ==
    IF maxlen = 0 THEN <<>>
    ELSE IF Len(d) = maxlen THEN <<x>> \o SubSeq(d, 1, Len(d) - 1)
    ELSE <<x>> \o d

\* deque(iterable, maxlen) and deque.extend(iterable): append one by one
RECURSIVE Deque_extend(_, _, _)
Deque_extend(d, iterable, maxlen) ==
    IF iterable = <<>> THEN d
    ELSE Deque_extend(Deque_append(d, Head(iterable), maxlen), Tail(iterable), maxlen)

\* deque.extendleft(iterable): appendleft one by one
RECURSIVE Deque_extendleft(_, _, _)
Deque_extendleft(d, iterable, maxlen) ==
    IF iterable = <<>> THEN d
    ELSE Deque_extendleft(Deque_appendleft(d, Head(iterable), maxlen), Tail(iterable), maxlen)

Deque_new(iterable, maxlen) == Deque_extend(<<>>, iterable, maxlen)

\* deque.rotate(n): n > 0 moves the last n items to the front, n < 0 the
\* first -n items to the back
Deque_rotate(d, n) ==
    IF d = <<>> THEN d
    ELSE LET k == n % Len(d)
         IN  SubSeq(d, Len(d) - k + 1, Len(d)) \o SubSeq(d, 1, Len(d) - k)

DequeInit ==
    /\ dq = <<>>
    /\ dqPrev = <<>>
    /\ dqLine = 0

\* one statement of the script: lines 137, 139, 140, 141, 142
DequeStep(line, after) ==
    /\ running = "Deque"
    /\ dq' = after
    /\ dqPrev' = dq
    /\ dqLine' = line
    /\ UNCHANGED OthersThanDeque

DequeNext ==
    \/ dqLine = 0 /\ DequeStep(137, Deque_new(PyRange(10), DequeMaxlen))
    \/ dqLine = 137 /\ DequeStep(139, Deque_rotate(dq, 3))
    \/ dqLine = 139 /\ DequeStep(140, Deque_appendleft(dq, -1, DequeMaxlen))
    \/ dqLine = 140 /\ DequeStep(141, Deque_extend(dq, <<11, 12, 13>>, DequeMaxlen))
    \/ dqLine = 141 /\ DequeStep(142, Deque_extendleft(dq, <<10, 20, 30, 40>>, DequeMaxlen))

\* C6: after rotate(3) and appendleft(-1) the deque built from 0..9 with
\* maxlen 10 has lost exactly its rightmost element, has -1 at the front,
\* keeps the other nine in order, and has length 10; no statement of the
\* script makes it longer than 10.
C6_AppendleftEvictsRight ==
    /\ Len(dq) <= 10
    /\ dqLine = 139 => dq = <<7, 8, 9, 0, 1, 2, 3, 4, 5, 6>>
    /\ dqLine = 140 =>
          /\ Len(dq) = 10
          /\ dq[1] = -1
          /\ SubSeq(dq, 2, 10) = SubSeq(dqPrev, 1, 9)
          /\ dq = <<-1, 7, 8, 9, 0, 1, 2, 3, 4, 5>>
    /\ dqLine = 141 => dq = <<9, 0, 1, 2, 3, 4, 5, 11, 12, 13>>
    /\ dqLine = 142 => dq = <<40, 30, 20, 10, 9, 0, 1, 2, 3, 4>>

C6_Witness ==
    /\ dqLine = 140
    /\ dqPrev = <<7, 8, 9, 0, 1, 2, 3, 4, 5, 6>>
    /\ dq[1] = -1
    /\ Len(dq) = 10

(***************************************************************************)
(* The memoized fibonacci of chapter 9: @functools.cache over @clock       *)
(***************************************************************************)
MaxFibArg == 6      \* largest argument of a top-level call

\* functools.cache never answers from its dictionary
CacheHit_Never(cache, n, memo) == FALSE

\* functools.cache: a call whose argument is in the dictionary is answered
\* from it and the wrapped function is not run
CacheHit(cache, n, memo) == n \in DOMAIN cache /\ memo

\* functools.cache stores the result of the wrapped call
CacheStore(cache, n, val, memo) == IF memo THEN (n :> val) @@ cache ELSE cache

\* One call of the name fibonacci.  st = [cache, body, val]: the cache, the
\* arguments with which the function body has run so far (clock passes the
\* call through to the body), and the value returned.  memo tells whether
\* the cache decorator is applied.
RECURSIVE fibonacci(_, _, _)
fibonacci(n, st, memo) ==
    IF CacheHit(st.cache, n, memo) THEN [st EXCEPT !.val = st.cache[n]]
    ELSE LET entered == [st EXCEPT !.body = Append(@, n)]
             r == IF n < 2 THEN [entered EXCEPT !.val = n]
                  ELSE LET a == fibonacci(n - 2, entered, memo)
                           b == fibonacci(n - 1, a, memo)
                       IN  [b EXCEPT !.val = a.val + b.val]
         IN  [r EXCEPT !.cache = CacheStore(r.cache, n, r.val, memo)]

EmptyCache == [n \in {} |-> 0]

FibInit ==
    /\ fibCache = EmptyCache
    /\ fibLast = [n |-> -1, memo |-> FALSE, fresh |-> TRUE, body |-> <<>>, val |-> 0]

\* fibonacci(n) at module level, the cache living on between calls
CallFibonacci(n) ==
    /\ running = "Fibonacci"
    /\ LET r == fibonacci(n, [cache |-> fibCache, body |-> <<>>, val |-> 0], TRUE)
       IN  /\ fibCache' = r.cache
           /\ fibLast' = [n |-> n, memo |-> TRUE, fresh |-> fibCache = EmptyCache,
                          body |-> r.body, val |-> r.val]
    /\ UNCHANGED OthersThanFib

\* the same recursion with the cache decorator left off (only @clock)
CallUncached(n) ==
    /\ running = "Fibonacci"
    /\ LET r == fibonacci(n, [cache |-> EmptyCache, body |-> <<>>, val |-> 0], FALSE)
       IN  fibLast' = [n |-> n, memo |-> FALSE, fresh |-> TRUE,
                       body |-> r.body, val |-> r.val]
    /\ UNCHANGED fibCache
    /\ UNCHANGED OthersThanFib

FibNext ==
    \/ \E n \in 0 .. MaxFibArg : CallFibonacci(n)
    \/ \E n \in 0 .. MaxFibArg : CallUncached(n)

\* C7: with the cache, fibonacci(6) on an empty cache runs the function
\* body exactly 7 times, once for each argument 0 .. 6 (and for every n >= 2
\* once for each of 0 .. n); without the cache it runs the body 25 times.
C7_MemoizedCallCount ==
    /\ (fibLast.memo /\ fibLast.fresh /\ fibLast.n = 6)
       => /\ Len(fibLast.body) = 7
          /\ \A k \in 0 .. 6 : Count(fibLast.body, k) = 1
          /\ fibLast.val = 8
    /\ (fibLast.memo /\ fibLast.fresh /\ fibLast.n >= 2)
       => /\ Len(fibLast.body) = fibLast.n + 1
          /\ \A k \in 0 .. fibLast.n : Count(fibLast.body, k) = 1
    /\ (~fibLast.memo /\ fibLast.n = 6)
       => /\ Len(fibLast.body) = 25
          /\ fibLast.val = 8

C7_Witness ==
    /\ fibLast.memo
    /\ fibLast.fresh
    /\ fibLast.n = 6
    /\ fibLast.body = <<6, 4, 2, 0, 1, 3, 5>>

(***************************************************************************)
(* The registration decorator of chapter 9                                 *)
(***************************************************************************)
MaxCalls == 4       \* invocations of f1 / f2 / f3 followed

\* a register that puts the function at the front of the list
register_Prepend(reg, func) == <<func>> \o reg

\* register(func): registry.append(func); return func
register(reg, func) == Append(reg, func)

\* the bodies of f1, f2 and f3 only print
RunBody(reg, func) == reg

RegisterInit ==
    /\ registry = <<>>
    /\ regLine = 0
    /\ calls = <<>>

\* lines 50-54: registry = [] and def register
DefRegister ==
    /\ running = "Register"
    /\ regLine = 0
    /\ registry' = <<>>
    /\ regLine' = 54
    /\ UNCHANGED calls
    /\ UNCHANGED OthersThanRegister

\* lines 56-58 and 60-62: a def under @register runs register(func) as the
\* def statement is executed
DefDecorated(from, to, func) ==
    /\ running = "Register"
    /\ regLine = from
    /\ registry' = register(registry, func)
    /\ regLine' = to
    /\ UNCHANGED calls
    /\ UNCHANGED OthersThanRegister

\* lines 64-65: a plain def
DefPlain ==
    /\ running = "Register"
    /\ regLine = 62
    /\ regLine' = 65
    /\ UNCHANGED <<registry, calls>>
    /\ UNCHANGED OthersThanRegister

\* lines 67-69, and any later call of f1, f2 or f3
Invoke(func) ==
    /\ running = "Register"
    /\ regLine = 65
    /\ Len(calls) < MaxCalls
    /\ Len(calls) < 3 => func = <<"f1", "f2", "f3">>[Len(calls) + 1]
    /\ registry' = RunBody(registry, func)
    /\ calls' = Append(calls, func)
    /\ UNCHANGED regLine
    /\ UNCHANGED OthersThanRegister

RegisterNext ==
    \/ DefRegister
    \/ DefDecorated(54, 58, "f1")
    \/ DefDecorated(58, 62, "f2")
    \/ DefPlain
    \/ \E func \in {"f1", "f2", "f3"} : Invoke(func)

\* C8: register runs as each decorated def is executed, in source order:
\* registry is [f1] after the first, [f1, f2] after the second, and it is
\* [f1, f2] when all defs are done and nothing was invoked yet and stays so
\* however often f1, f2 and f3 are invoked; nothing is invoked earlier.
C8_RegistryFilledAtDefinition ==
    /\ regLine = 58 => registry = <<"f1">>
    /\ regLine \in {62, 65} => registry = <<"f1", "f2">>
    /\ calls # <<>> => regLine = 65

C8_Witness ==
    /\ Len(calls) = 4
    /\ calls[4] = "f1"
    /\ registry = <<"f1", "f2">>

(***************************************************************************)
(* The averager closures of chapter 9.  A closure is [version, cell]: the  *)
(* make_averager that built it and the index of the cell holding its free  *)
(* variables, [series, count, total] (the list version uses series, the    *)
(* nonlocal version count and total).                                      *)
(***************************************************************************)
MaxAveragers == 2   \* make_averager() calls followed
MaxAvgCalls == 3    \* averager calls followed, over all averagers

NewValues == {10, 11}

RECURSIVE SumSeq(_)
SumSeq(s) == IF s = <<>> THEN 0 ELSE Head(s) + SumSeq(Tail(s))

FreshCell == [series |-> <<>>, count |-> 0, total |-> 0]

\* a make_averager whose closures all use the variables of the first call
make_averager_Shared(cs, version) ==
    [cells |-> Append(cs, FreshCell), closure |-> [version |-> version, cell |-> 1]]

\* make_averager(): new local variables for this call, captured by the
\* closure it returns
make_averager(cs, version) ==
    [cells |-> Append(cs, FreshCell),
     closure |-> [version |-> version, cell |-> Len(cs) + 1]]

\* averager(new_value), list version; the quotient total / len(series) is
\* kept as numerator and denominator
averager_list(cell, new_value) ==
    LET series == Append(cell.series, new_value)
        total == SumSeq(series)
    IN  [cell |-> [cell EXCEPT !.series = series], num |-> total, den |-> Len(series)]

\* averager(new_value), nonlocal count / total version
averager_nonlocal(cell, new_value) ==
    LET count == cell.count + 1
        total == cell.total + new_value
    IN  [cell |-> [cell EXCEPT !.count = count, !.total = total],
         num |-> total, den |-> count]

averager(closure, cell, new_value) ==
    IF closure.version = "list" THEN averager_list(cell, new_value)
    ELSE averager_nonlocal(cell, new_value)

AveragerInit ==
    /\ cells = <<>>
    /\ averagers = <<>>
    /\ avgHist = <<>>
    /\ avgLast = [who |-> 0, num |-> 0, den |-> 1]

\* avg = make_averager()
MakeAverager(version) ==
    /\ running = "Averager"
    /\ Len(averagers) < MaxAveragers
    /\ LET m == make_averager(cells, version)
       IN  /\ cells' = m.cells
           /\ averagers' = Append(averagers, m.closure)
    /\ avgHist' = Append(avgHist, <<>>)
    /\ UNCHANGED avgLast
    /\ UNCHANGED OthersThanAverager

\* avg(new_value) on the i-th averager
CallAverager(i, new_value) ==
    /\ running = "Averager"
    /\ i \in DOMAIN averagers
    /\ SumSeq([k \in DOMAIN avgHist |-> Len(avgHist[k])]) < MaxAvgCalls
    /\ LET c == averagers[i]
           r == averager(c, cells[c.cell], new_value)
       IN  /\ cells' = [cells EXCEPT ![c.cell] = r.cell]
           /\ avgLast' = [who |-> i, num |-> r.num, den |-> r.den]
    /\ avgHist' = [avgHist EXCEPT ![i] = Append(@, new_value)]
    /\ UNCHANGED averagers
    /\ UNCHANGED OthersThanAverager

AveragerNext ==
    \/ \E version \in {"list", "nonlocal"} : MakeAverager(version)
    \/ \E i \in 1 .. MaxAveragers, new_value \in NewValues : CallAverager(i, new_value)

\* C9: whatever the interleaving of calls on the averagers, each call
\* returns the mean of the values passed so far to that same averager
\* (num / den = sum / count, compared by cross-multiplication), for the
\* list version and the nonlocal version alike.
C9_AveragersIndependent ==
    avgLast.who # 0 =>
        LET h == avgHist[avgLast.who]
        IN  /\ avgLast.den # 0
            /\ avgLast.num * Len(h) = SumSeq(h) * avgLast.den

C9_Witness ==
    /\ Len(averagers) = 2
    /\ averagers[1].version # averagers[2].version
    /\ avgHist[1] = <<10>>
    /\ avgHist[2] = <<11, 11>>
    /\ avgLast = [who |-> 1, num |-> 10, den |-> 1]

(***************************************************************************)
(* The buses of chapter 6.  Lists are objects on a heap, named by their    *)
(* index; a bus is [cls, dflt, passengers, net]: its class, whether it was *)
(* constructed without a passengers argument, the list its passengers      *)
(* attribute refers to, and for each name how many of it this bus was      *)
(* constructed with plus picked up minus dropped.                          *)
(***************************************************************************)
MaxBuses == 2       \* bus constructions followed
MaxBusOps == 3      \* pick / drop calls followed

Names == {"Carrie", "Dave"}

\* the lists a caller passes to a constructor
PassengerLists == {<<"Carrie">>}

\* the list object created once, when def __init__(self, passengers=[]) runs
HauntedDefault == 1

NameCount(s) == [n \in Names |-> Count(s, n)]

\* list.remove(x): the first occurrence goes, ValueError if there is none
ListRemove(s, x) ==
    IF x \notin Range(s) THEN [exc |-> "ValueError", list |-> s]
    ELSE LET i == CHOOSE k \in DOMAIN s : s[k] = x /\ \A j \in 1 .. k - 1 : s[j] # x
         IN  [exc |-> "none", list |-> SubSeq(s, 1, i - 1) \o SubSeq(s, i + 1, Len(s))]

\* a HauntedBus that makes its own list when no passengers are given
HauntedBus_init_Fresh(h, arg) ==
    [heap |-> Append(h, IF arg.given THEN arg.list ELSE <<>>),
     passengers |-> Len(h) + 1]

\* HauntedBus.__init__(self, passengers=[]): self.passengers = passengers.
\* A list given by the caller is a new object handed over by reference.
HauntedBus_init(h, arg) ==
    IF arg.given THEN [heap |-> Append(h, arg.list), passengers |-> Len(h) + 1]
    ELSE [heap |-> h, passengers |-> HauntedDefault]

\* Bus.__init__(self, passengers=None): a new [] or a new list(passengers)
Bus_init(h, arg) ==
    IF ~arg.given THEN [heap |-> Append(h, <<>>), passengers |-> Len(h) + 1]
    ELSE [heap |-> Append(h, arg.list), passengers |-> Len(h) + 1]

\* pick(name): self.passengers.append(name)
Bus_pick(h, bus, name) == [exc |-> "none", heap |-> [h EXCEPT ![bus.passengers] = Append(@, name)]]

\* drop(name): self.passengers.remove(name)
Bus_drop(h, bus, name) ==
    LET r == ListRemove(h[bus.passengers], name)
    IN  [exc |-> r.exc, heap |-> [h EXCEPT ![bus.passengers] = r.list]]

Args == {[given |-> FALSE, list |-> <<>>]} \cup {[given |-> TRUE, list |-> l] : l \in PassengerLists}

BusInit ==
    /\ heap = << <<>> >>
    /\ buses = <<>>
    /\ busOps = 0
    /\ teams = {}

\* the snippets whose instances have these pick and drop methods
BusSnippets == {"Bus", "TwilightBus"}

\* HauntedBus() / HauntedBus(list)
NewHauntedBus(arg) ==
    /\ running = "Bus"
    /\ Len(buses) < MaxBuses
    /\ LET r == HauntedBus_init(heap, arg)
       IN  /\ heap' = r.heap
           /\ buses' = Append(buses, [cls |-> "HauntedBus", dflt |-> ~arg.given,
                                      passengers |-> r.passengers,
                                      net |-> NameCount(arg.list)])
    /\ UNCHANGED <<busOps, teams>>
    /\ UNCHANGED OthersThanBus

\* Bus() / Bus(list)
NewBus(arg) ==
    /\ running = "Bus"
    /\ Len(buses) < MaxBuses
    /\ LET r == Bus_init(heap, arg)
       IN  /\ heap' = r.heap
           /\ buses' = Append(buses, [cls |-> "Bus", dflt |-> ~arg.given,
                                      passengers |-> r.passengers,
                                      net |-> NameCount(arg.list)])
    /\ UNCHANGED <<busOps, teams>>
    /\ UNCHANGED OthersThanBus

\* bus.pick(name)
BusPick(i, name) ==
    /\ running \in BusSnippets
    /\ i \in DOMAIN buses
    /\ busOps < MaxBusOps
    /\ heap' = Bus_pick(heap, buses[i], name).heap
    /\ buses' = [buses EXCEPT ![i].net[name] = @ + 1]
    /\ busOps' = busOps + 1
    /\ UNCHANGED teams
    /\ UNCHANGED OthersThanBus

\* bus.drop(name)
BusDrop(i, name) ==
    /\ running \in BusSnippets
    /\ i \in DOMAIN buses
    /\ busOps < MaxBusOps
    /\ LET r == Bus_drop(heap, buses[i], name)
       IN  /\ heap' = r.heap
           /\ buses' = IF r.exc = "none" THEN [buses EXCEPT ![i].net[name] = @ - 1]
                       ELSE buses
    /\ busOps' = busOps + 1
    /\ UNCHANGED teams
    /\ UNCHANGED OthersThanBus

BusNext ==
    \/ \E arg \in Args : NewHauntedBus(arg)
    \/ \E arg \in Args : NewBus(arg)
    \/ \E i \in 1 .. MaxBuses, name \in Names : BusPick(i, name)
    \/ \E i \in 1 .. MaxBuses, name \in Names : BusDrop(i, name)

\* the passengers seen on bus i
Passengers(i) == heap[buses[i].passengers]

SharesDefault(i) == buses[i].cls = "HauntedBus" /\ buses[i].dflt

RECURSIVE SharedNet(_, _)
SharedNet(k, name) ==
    IF k = 0 THEN 0
    ELSE (IF SharesDefault(k) THEN buses[k].net[name] ELSE 0) + SharedNet(k - 1, name)

\* C10: the HauntedBus instances built without a passengers argument all
\* show one and the same list, which holds every passenger any of them
\* picked up (and did not drop); a HauntedBus built from an explicit list
\* and every Bus shows exactly its own initial passengers and pick-ups.
C10_DefaultListShared ==
    \A i \in DOMAIN buses : \A name \in Names :
        IF SharesDefault(i)
        THEN Count(Passengers(i), name) = SharedNet(Len(buses), name)
        ELSE Count(Passengers(i), name) = buses[i].net[name]

C10_Witness ==
    /\ Len(buses) = 2
    /\ SharesDefault(1) /\ SharesDefault(2)
    /\ buses[1].net = [n \in Names |-> IF n = "Carrie" THEN 1 ELSE 0]
    /\ buses[2].net = [n \in Names |-> IF n = "Dave" THEN 1 ELSE 0]
    /\ Passengers(1) = <<"Carrie", "Dave">>
    /\ Passengers(2) = <<"Carrie", "Dave">>

\* a HauntedBus built from an explicit list beside one built without: the
\* pick-up of the second does not show on the first
C10_WitnessExplicit ==
    /\ Len(buses) = 2
    /\ buses[1].cls = "HauntedBus" /\ ~buses[1].dflt
    /\ SharesDefault(2)
    /\ Passengers(1) = <<"Carrie">>
    /\ Passengers(2) = <<"Dave">>

\* the fixed pattern: two Bus instances built without an argument, one
\* pick-up each, each showing only its own passenger
C10_WitnessFixed ==
    /\ Len(buses) >= 2
    /\ buses[1].cls = "Bus" /\ buses[1].dflt
    /\ buses[2].cls = "Bus" /\ buses[2].dflt
    /\ Passengers(1) = <<"Carrie">>
    /\ Passengers(2) = <<"Dave">>

(***************************************************************************)
(* TwilightBus and TwilightBusFix of chapter 6.  The caller holds a list   *)
(* (basketball_team) and hands it to the constructor; teams records, for   *)
(* the bus built from it, which list object that is and what it held.      *)
(***************************************************************************)
\* TwilightBus.__init__: a new [] for None, otherwise the caller's list
\* itself.  arg.ref is the caller's list object when one is given.
TwilightBus_init(h, arg) ==
    IF ~arg.given THEN [heap |-> Append(h, <<>>), passengers |-> Len(h) + 1]
    ELSE [heap |-> h, passengers |-> arg.ref]

\* a TwilightBusFix that keeps the caller's list instead of copying it
TwilightBusFix_init_ByReference(h, arg) ==
    IF ~arg.given THEN [heap |-> Append(h, <<>>), passengers |-> Len(h) + 1]
    ELSE [heap |-> h, passengers |-> arg.ref]

\* TwilightBusFix.__init__: a new [] for None, otherwise list(passengers)
TwilightBusFix_init(h, arg) ==
    IF ~arg.given THEN [heap |-> Append(h, <<>>), passengers |-> Len(h) + 1]
    ELSE [heap |-> Append(h, h[arg.ref]), passengers |-> Len(h) + 1]

TwilightClasses == {"TwilightBus", "TwilightBusFix"}

TwilightInit(c, h, arg) ==
    IF c = "TwilightBus" THEN TwilightBus_init(h, arg) ELSE TwilightBusFix_init(h, arg)

\* bus = C()
NewTwilightDefault(c) ==
    /\ running = "TwilightBus"
    /\ Len(buses) < MaxBuses
    /\ LET r == TwilightInit(c, heap, [given |-> FALSE, ref |-> 0])
       IN  /\ heap' = r.heap
           /\ buses' = Append(buses, [cls |-> c, dflt |-> TRUE,
                                      passengers |-> r.passengers,
                                      net |-> NameCount(<<>>)])
    /\ UNCHANGED <<busOps, teams>>
    /\ UNCHANGED OthersThanBus

\* basketball_team = [...]; bus = C(basketball_team)
NewTwilightFrom(c, team) ==
    /\ running = "TwilightBus"
    /\ Len(buses) < MaxBuses
    /\ LET withTeam == Append(heap, team)
           ref == Len(heap) + 1
           r == TwilightInit(c, withTeam, [given |-> TRUE, ref |-> ref])
       IN  /\ heap' = r.heap
           /\ buses' = Append(buses, [cls |-> c, dflt |-> FALSE,
                                      passengers |-> r.passengers,
                                      net |-> NameCount(team)])
           /\ teams' = teams \cup {[bus |-> Len(buses) + 1, ref |-> ref, orig |-> team]}
    /\ UNCHANGED busOps
    /\ UNCHANGED OthersThanBus

TwilightNext ==
    \/ \E c \in TwilightClasses : NewTwilightDefault(c)
    \/ \E c \in TwilightClasses, team \in PassengerLists : NewTwilightFrom(c, team)

\* C11: a TwilightBus shows the caller's own list object, so that list holds
\* what the bus was built with plus its pick-ups minus its drops; the list
\* handed to a TwilightBusFix holds what it held at construction whatever
\* pick and drop calls the bus received.
C11_TwilightAliasesFixCopies ==
    \A t \in teams :
        IF buses[t.bus].cls = "TwilightBus"
        THEN /\ buses[t.bus].passengers = t.ref
             /\ \A name \in Names : Count(heap[t.ref], name) = buses[t.bus].net[name]
        ELSE /\ buses[t.bus].passengers # t.ref
             /\ heap[t.ref] = t.orig

C11_Witness ==
    /\ Len(buses) = 2
    /\ \E t \in teams : /\ t.bus = 1
                        /\ buses[1].cls = "TwilightBus"
                        /\ t.orig = <<"Carrie">>
                        /\ heap[t.ref] = <<>>
    /\ \E t \in teams : /\ t.bus = 2
                        /\ buses[2].cls = "TwilightBusFix"
                        /\ t.orig = <<"Carrie">>
                        /\ heap[t.ref] = <<"Carrie">>
                        /\ Passengers(2) = <<"Carrie", "Dave">>

(***************************************************************************)
(* The discount strategies of chapter 10.  A Decimal is kept as an integer *)
(* number of ten-thousandths; an order is [customer, cart], the cart a     *)
(* sequence of line items [product, quantity, price].                      *)
(***************************************************************************)
MaxBaseItems == 2   \* line items with free product / quantity / price in a cart
MaxSkus == 10       \* one-unit line items of distinct products added to them

\* Decimal('w.hh')
Decimal(whole, hundredths) == whole * 10000 + hundredths * 100

\* Decimal * Decimal
DecMul(a, b) == (a * b) \div 10000

\* LineItem.total(): price * quantity, quantity an int
LineItem_total(item) == item.price * item.quantity

\* Order.total(): sum(totals, start=Decimal(0))
RECURSIVE Order_total(_)
Order_total(cart) ==
    IF cart = <<>> THEN Decimal(0, 0)
    ELSE LineItem_total(Head(cart)) + Order_total(Tail(cart))

DistinctProducts(cart) == {cart[i].product : i \in DOMAIN cart}

\* ---- the strategy classes (lines 54-77) ----
FidelityPromo_discount(order) ==
    IF order.customer.fidelity >= 1000
    THEN DecMul(Order_total(order.cart), Decimal(0, 5))
    ELSE Decimal(0, 0)

RECURSIVE BulkItemPromo_loop(_, _)
BulkItemPromo_loop(cart, discount) ==
    IF cart = <<>> THEN discount
    ELSE BulkItemPromo_loop(Tail(cart),
            IF Head(cart).quantity >= 20
            THEN discount + DecMul(LineItem_total(Head(cart)), Decimal(0, 10))
            ELSE discount)

BulkItemPromo_discount(order) == BulkItemPromo_loop(order.cart, Decimal(0, 0))

LargeOrderPromo_discount(order) ==
    IF Cardinality(DistinctProducts(order.cart)) >= 10
    THEN DecMul(Order_total(order.cart), Decimal(0, 7))
    ELSE Decimal(0, 0)

\* ---- the bare functions (lines 135-154) ----
fidelity_promo(order) ==
    IF order.customer.fidelity >= 1000
    THEN DecMul(Order_total(order.cart), Decimal(0, 5))
    ELSE Decimal(0, 0)

RECURSIVE bulk_item_promo_loop(_, _)
bulk_item_promo_loop(cart, discount) ==
    IF cart = <<>> THEN discount
    ELSE bulk_item_promo_loop(Tail(cart),
            IF Head(cart).quantity >= 20
            THEN discount + DecMul(LineItem_total(Head(cart)), Decimal(0, 10))
            ELSE discount)

bulk_item_promo(order) == bulk_item_promo_loop(order.cart, Decimal(0, 0))

large_order_promo(order) ==
    IF Cardinality(DistinctProducts(order.cart)) >= 10
    THEN DecMul(Order_total(order.cart), Decimal(0, 7))
    ELSE Decimal(0, 0)

\* ---- the registered functions (lines 207-229) ----
fidelity(order) ==
    IF order.customer.fidelity >= 1000
    THEN DecMul(Order_total(order.cart), Decimal(0, 5))
    ELSE Decimal(0, 0)

RECURSIVE bulk_item_loop(_, _)
bulk_item_loop(cart, discount) ==
    IF cart = <<>> THEN discount
    ELSE bulk_item_loop(Tail(cart),
            IF Head(cart).quantity >= 20
            THEN discount + DecMul(LineItem_total(Head(cart)), Decimal(0, 10))
            ELSE discount)

bulk_item(order) == bulk_item_loop(order.cart, Decimal(0, 0))

\* large_order counting the line items instead of the distinct products
large_order_CountsLines(order) ==
    IF Len(order.cart) >= 10
    THEN DecMul(Order_total(order.cart), Decimal(0, 7))
    ELSE Decimal(0, 0)

large_order(order) ==
    IF Cardinality(DistinctProducts(order.cart)) >= 10
    THEN DecMul(Order_total(order.cart), Decimal(0, 7))
    ELSE Decimal(0, 0)

\* calling a promotion: promotion.discount(order) or promotion(order)
Discount(promo, order) ==
    CASE promo = "FidelityPromo" -> FidelityPromo_discount(order)
      [] promo = "BulkItemPromo" -> BulkItemPromo_discount(order)
      [] promo = "LargeOrderPromo" -> LargeOrderPromo_discount(order)
      [] promo = "fidelity_promo" -> fidelity_promo(order)
      [] promo = "bulk_item_promo" -> bulk_item_promo(order)
      [] promo = "large_order_promo" -> large_order_promo(order)
      [] promo = "fidelity" -> fidelity(order)
      [] promo = "bulk_item" -> bulk_item(order)
      [] promo = "large_order" -> large_order(order)

\* Order.due() with a promotion set (both Order classes: total - discount)
Order_due(order, promo) == Order_total(order.cart) - Discount(promo, order)

\* @promotion: promos.append(promo), in the order of the three defs
promotion(promos, promo) == Append(promos, promo)

RegisteredPromos ==
    promotion(promotion(promotion(<<>>, "fidelity"), "bulk_item"), "large_order")

\* max(...) of a non-empty sequence of numbers
RECURSIVE PyMax(_)
PyMax(s) ==
    IF Len(s) = 1 THEN s[1]
    ELSE LET m == PyMax(Tail(s)) IN IF Head(s) < m THEN m ELSE Head(s)

\* a best_promo that takes the first registered promotion
best_promo_First(order) == Discount(RegisteredPromos[1], order)

\* best_promo(order): max(promo(order) for promo in promos)
best_promo(order) ==
    PyMax([i \in DOMAIN RegisteredPromos |-> Discount(RegisteredPromos[i], order)])

PromoNames == {"FidelityPromo", "BulkItemPromo", "LargeOrderPromo",
               "fidelity_promo", "bulk_item_promo", "large_order_promo",
               "fidelity", "bulk_item", "large_order"}

\* the customers and carts tried
Fidelities == {0, 999, 1000, 1100}

BaseItems == [product : {"banana", "apple"}, quantity : {19, 20},
              price : {Decimal(0, 50), Decimal(1, 50)}]

\* long_cart: LineItem(str(sku), 1, Decimal(1)) for sku in range(n)
LongCart(n) == [i \in 1 .. n |-> [product |-> ToString(i - 1), quantity |-> 1,
                                  price |-> Decimal(1, 0)]]

Carts == {base \o LongCart(n) : base \in SeqsUpTo(BaseItems, MaxBaseItems), n \in 0 .. MaxSkus}

NoOrder == [customer |-> [fidelity |-> -1], cart |-> <<>>]

PromoInit ==
    /\ placed = NoOrder
    /\ dues = [p \in PromoNames |-> 0]
    /\ best = 0

\* Order(customer, cart, promo).due() for each promotion, and best_promo
PlaceOrder(fid, cart) ==
    /\ running = "Promotions"
    /\ placed = NoOrder
    /\ LET o == [customer |-> [fidelity |-> fid], cart |-> cart]
       IN  /\ placed' = o
           /\ dues' = [p \in PromoNames |-> Order_due(o, p)]
           /\ best' = best_promo(o)
    /\ UNCHANGED OthersThanPromo

\* one order is placed per run, for any customer and cart
PromoNext ==
    /\ running = "Promotions"
    /\ placed = NoOrder
    /\ \E fid \in Fidelities, cart \in Carts : PlaceOrder(fid, cart)

\* C12: for every customer and cart the class, the bare function and the
\* registered function of one policy give the same due().
C12_ThreeImplementationsAgree ==
    /\ dues["FidelityPromo"] = dues["fidelity_promo"]
    /\ dues["fidelity_promo"] = dues["fidelity"]
    /\ dues["BulkItemPromo"] = dues["bulk_item_promo"]
    /\ dues["bulk_item_promo"] = dues["bulk_item"]
    /\ dues["LargeOrderPromo"] = dues["large_order_promo"]
    /\ dues["large_order_promo"] = dues["large_order"]

\* at all three thresholds at once, each policy giving a discount
C12_Witness ==
    /\ placed.customer.fidelity = 1000
    /\ Cardinality(DistinctProducts(placed.cart)) = 10
    /\ Len(placed.cart) = 11
    /\ \E i \in DOMAIN placed.cart : placed.cart[i].quantity = 20
    /\ dues["fidelity"] < Order_total(placed.cart)
    /\ dues["bulk_item"] < Order_total(placed.cart)
    /\ dues["large_order"] < Order_total(placed.cart)

\* the discount each registered policy gives on the order placed
RegisteredDiscounts == {Order_total(placed.cart) - dues[p] : p \in {"fidelity", "bulk_item", "large_order"}}

OnlyBulkTriggers ==
    /\ placed # NoOrder
    /\ placed.customer.fidelity < 1000
    /\ Cardinality(DistinctProducts(placed.cart)) < 10
    /\ \E i \in DOMAIN placed.cart : placed.cart[i].quantity >= 20

\* C13: best_promo(order) is the largest of the discounts of the registered
\* policies on that order; on a cart that triggers only the bulk-item rule
\* it is that rule's discount.
C13_BestPromoIsMaximum ==
    placed # NoOrder =>
        /\ best \in RegisteredDiscounts
        /\ \A x \in RegisteredDiscounts : x <= best
        /\ OnlyBulkTriggers => /\ best = Order_total(placed.cart) - dues["bulk_item"]
                               /\ best > 0

C13_Witness ==
    /\ OnlyBulkTriggers
    /\ best = Order_total(placed.cart) - dues["bulk_item"]
    /\ dues["fidelity"] = Order_total(placed.cart)
    /\ dues["large_order"] = Order_total(placed.cart)
    /\ best > 0


(***************************************************************************)
(* HackerClubMember: a dataclass whose __post_init__ derives the handle    *)
(* and keeps the handles of all instances distinct.                        *)
(* A str is modelled as the sequence of its characters.                    *)
(***************************************************************************)
MaxMembers == 2     \* most instances constructed

Whitespace == {" "}

\* str.split() with no separator: the maximal runs of non-whitespace
RECURSIVE str_split(_)
str_split(s) ==
    IF s = <<>> THEN <<>>
    ELSE IF s[1] \in Whitespace THEN str_split(Tail(s))
    ELSE LET rest == str_split(Tail(s))
         IN  IF Len(s) > 1 /\ s[2] \notin Whitespace
             THEN <<(<<s[1]>> \o rest[1])>> \o Tail(rest)
             ELSE <<(<<s[1]>>)>> \o rest

\* HackerClubMember.__post_init__ without the membership test
HackerClubMember_post_init_NoCheck(name, handle, handles) ==
    IF handle = <<>> /\ str_split(name) = <<>>
    THEN [exc |-> "IndexError", handle |-> handle, all_handles |-> handles]
    ELSE LET h == IF handle = <<>> THEN str_split(name)[1] ELSE handle
         IN  [exc |-> "none", handle |-> h, all_handles |-> handles \cup {h}]

\* HackerClubMember.__post_init__: the outcome of constructing an instance
\* from a name and a handle while the class holds the handles given
HackerClubMember_post_init(name, handle, handles) ==
    IF handle = <<>> /\ str_split(name) = <<>>
    THEN [exc |-> "IndexError", handle |-> handle, all_handles |-> handles]
    ELSE LET h == IF handle = <<>> THEN str_split(name)[1] ELSE handle
         IN  IF h \in handles
             THEN [exc |-> "ValueError", handle |-> h, all_handles |-> handles]
             ELSE [exc |-> "none", handle |-> h, all_handles |-> handles \cup {h}]

ClubNames ==
    { <<>>, <<" ">>, <<"a">>, <<"a", " ", "b">>, <<" ", "b", " ", "a">>, <<"b">> }

ClubHandles == { <<>>, <<"a">>, <<"c">> }

NoConstruction ==
    [name |-> <<>>, given |-> <<>>, handle |-> <<>>, exc |-> "idle", before |-> {}]

ClubInit ==
    /\ members = <<>>
    /\ all_handles = {}
    /\ clubLast = NoConstruction

\* HackerClubMember(name, handle=handle)
NewMember(name, handle) ==
    /\ running = "Club"
    /\ Len(members) < MaxMembers
    /\ LET r == HackerClubMember_post_init(name, handle, all_handles)
       IN  /\ all_handles' = r.all_handles
           /\ members' = IF r.exc = "none"
                         THEN Append(members, [name |-> name, handle |-> r.handle])
                         ELSE members
           /\ clubLast' = [name |-> name, given |-> handle, handle |-> r.handle,
                           exc |-> r.exc, before |-> all_handles]
    /\ UNCHANGED OthersThanClub

ClubNext == \E name \in ClubNames, handle \in ClubHandles : NewMember(name, handle)

\* the first word of a name, by scanning for the first run of non-blanks
FirstWord(name) ==
    LET starts == {i \in DOMAIN name : name[i] # " "}
        first == CHOOSE i \in starts : \A j \in starts : i <= j
        ends == {i \in first .. Len(name) : \A j \in first .. i : name[j] # " "}
        lastc == CHOOSE i \in ends : \A j \in ends : j <= i
    IN  SubSeq(name, first, lastc)

\* C14: the handles of the instances constructed are pairwise distinct, each
\* is the handle given or, when that was empty, the first word of the name,
\* and all_handles is exactly their set; a construction whose handle is
\* already in all_handles raises ValueError and leaves all_handles unchanged.
C14_HandlesUnique ==
    /\ \A i, j \in DOMAIN members : i # j => members[i].handle # members[j].handle
    /\ all_handles = {members[i].handle : i \in DOMAIN members}
    /\ clubLast.exc \notin {"idle", "IndexError"} =>
           clubLast.handle = IF clubLast.given = <<>> THEN FirstWord(clubLast.name)
                             ELSE clubLast.given
    /\ clubLast.exc = "none" =>
           members[Len(members)] = [name |-> clubLast.name, handle |-> clubLast.handle]
    /\ clubLast.exc \notin {"idle", "IndexError"} =>
           IF clubLast.handle \in clubLast.before
           THEN clubLast.exc = "ValueError" /\ all_handles = clubLast.before
           ELSE clubLast.exc = "none" /\ all_handles = clubLast.before \cup {clubLast.handle}

\* two members, one with a derived handle, then a duplicate refused
C14_Witness ==
    /\ Len(members) = 1
    /\ members[1] = [name |-> <<"a", " ", "b">>, handle |-> <<"a">>]
    /\ clubLast.exc = "ValueError"
    /\ clubLast.name = <<"a">>
    /\ all_handles = {<<"a">>}

(***************************************************************************)
(* Multiple inheritance: Root, A, B, Leaf, U, LeafUA and their chained     *)
(* super() calls.                                                          *)
(***************************************************************************)
MroClasses == {"Root", "A", "B", "Leaf", "U", "LeafUA"}

Methods == {"ping", "pong"}

\* the bases named in each class statement
Bases(c) ==
    CASE c = "object" -> <<>>
      [] c = "Root" -> <<"object">>
      [] c = "A" -> <<"Root">>
      [] c = "B" -> <<"Root">>
      [] c = "Leaf" -> <<"A", "B">>
      [] c = "U" -> <<"object">>
      [] c = "LeafUA" -> <<"U", "A">>

\* does the body of class c define method m
Defines(c, m) ==
    CASE c = "Root" -> TRUE
      [] c = "A" -> TRUE
      [] c = "B" -> TRUE
      [] c = "Leaf" -> m = "ping"
      [] c = "U" -> m = "ping"
      [] c = "LeafUA" -> m = "ping"
      [] OTHER -> FALSE

\* does c's body of m end with super().m()
CallsSuper(c, m) ==
    CASE c = "Root" -> FALSE
      [] c = "A" -> TRUE
      [] c = "B" -> m = "ping"
      [] OTHER -> TRUE

\* the merge step of the C3 linearization: take the first head that is in
\* the tail of no list
RECURSIVE c3_merge(_)
c3_merge(lists) ==
    LET rest == SelectSeq(lists, LAMBDA l : l # <<>>)
        InTail(c, l) == \E k \in 2 .. Len(l) : l[k] = c
        good == {i \in DOMAIN rest : \A j \in DOMAIN rest : ~InTail(rest[i][1], rest[j])}
    IN  IF rest = <<>> \/ good = {} THEN <<>>
        ELSE LET i == CHOOSE k \in good : \A j \in good : k <= j
                 h == rest[i][1]
             IN  <<h>> \o c3_merge([k \in DOMAIN rest |->
                                       IF rest[k][1] = h THEN Tail(rest[k]) ELSE rest[k]])

\* type.__mro__
RECURSIVE mro(_)
mro(c) ==
    <<c>> \o c3_merge([i \in DOMAIN Bases(c) |-> mro(Bases(c)[i])] \o <<Bases(c)>>)

IndexOf(l, c) == CHOOSE i \in DOMAIN l : l[i] = c

\* the first class of l at or after position from that defines m
Lookup(l, from, m) ==
    LET found == {i \in from .. Len(l) : Defines(l[i], m)}
    IN  IF found = {} THEN "AttributeError"
        ELSE l[CHOOSE i \in found : \A j \in found : i <= j]

\* super() resolved along the hierarchy of the class the method is written in
super_next_Static(cls, cur, m) == Lookup(mro(cur), 2, m)

\* super().m() inside the body of class cur, on an instance of class cls
super_next(cls, cur, m) == Lookup(mro(cls), IndexOf(mro(cls), cur) + 1, m)

Ended == {"idle", "returned", "AttributeError"}

MroInit ==
    /\ mroCall = [cls |-> "none", method |-> "none"]
    /\ frame = "idle"
    /\ trace = <<>>

\* cls().m(): attribute lookup on the instance finds the method to run
CallMethod(cls, m) ==
    /\ running = "Super"
    /\ frame \in Ended
    /\ mroCall' = [cls |-> cls, method |-> m]
    /\ trace' = <<>>
    /\ frame' = Lookup(mro(cls), 1, m)
    /\ UNCHANGED OthersThanMro

\* one method body: print, then the super() call if the body has one
RunMethodBody ==
    /\ running = "Super"
    /\ frame \notin Ended
    /\ trace' = Append(trace, frame)
    /\ frame' = IF CallsSuper(frame, mroCall.method)
                THEN super_next(mroCall.cls, frame, mroCall.method)
                ELSE "returned"
    /\ UNCHANGED <<mroCall, OthersThanMro>>

MroNext ==
    \/ \E cls \in MroClasses, m \in Methods : CallMethod(cls, m)
    \/ RunMethodBody

\* the linearizations printed by Leaf.__mro__ and LeafUA.__mro__
PrintedMro(c) ==
    CASE c = "Leaf" -> <<"Leaf", "A", "B", "Root", "object">>
      [] c = "LeafUA" -> <<"LeafUA", "U", "A", "Root", "object">>
      [] c = "A" -> <<"A", "Root", "object">>
      [] c = "B" -> <<"B", "Root", "object">>
      [] c = "U" -> <<"U", "object">>
      [] c = "Root" -> <<"Root", "object">>

Finished(c, m) == mroCall = [cls |-> c, method |-> m] /\ frame \in {"returned", "AttributeError"}

\* C15: the bodies a call runs are classes of the instance's own
\* linearization, in that order, each at most once; Leaf().ping() runs Leaf,
\* A, B, Root; Leaf().pong() runs A then B and stops; LeafUA().ping() runs
\* LeafUA, U, A, Root; U().ping() runs U and fails with AttributeError.
C15_SuperFollowsInstanceMro ==
    /\ mroCall.cls \in MroClasses => mro(mroCall.cls) = PrintedMro(mroCall.cls)
    /\ mroCall.cls \in MroClasses =>
           \A i, j \in DOMAIN trace :
               i < j => \E p, q \in DOMAIN PrintedMro(mroCall.cls) :
                            /\ p < q
                            /\ PrintedMro(mroCall.cls)[p] = trace[i]
                            /\ PrintedMro(mroCall.cls)[q] = trace[j]
    /\ Finished("Leaf", "ping") => trace = <<"Leaf", "A", "B", "Root">> /\ frame = "returned"
    /\ Finished("Leaf", "pong") => trace = <<"A", "B">> /\ frame = "returned"
    /\ Finished("LeafUA", "ping") =>
           trace = <<"LeafUA", "U", "A", "Root">> /\ frame = "returned"
    /\ Finished("U", "ping") => trace = <<"U">> /\ frame = "AttributeError"

C15_Witness ==
    /\ Finished("LeafUA", "ping")
    /\ trace = <<"LeafUA", "U", "A", "Root">>

(***************************************************************************)
(* DoppelDict (a dict subclass) and DoppelDict2 (a UserDict subclass).     *)
(* A mapping is a function from the keys it holds; a stored value is       *)
(* [kind, items]: an int holds one item, a list holds its items.           *)
(***************************************************************************)
DoppelKeys == {"one", "two", "three"}

DoppelValues == {1, 2, 3}

PyInt(v) == [kind |-> "int", items |-> <<v>>]

PyList(items) == [kind |-> "list", items |-> items]

\* [value] * n
RECURSIVE ListRepeat(_, _)
ListRepeat(items, n) == IF n = 0 THEN <<>> ELSE items \o ListRepeat(items, n - 1)

EmptyDict == <<>>

\* dict.__setitem__
dict_setitem(data, k, value) ==
    [x \in DOMAIN data \cup {k} |-> IF x = k THEN value ELSE data[x]]

\* dict.update / dict.__init__ with keywords: the pairs are stored by the
\* built-in itself, no __setitem__ override is called
dict_update(data, kw) ==
    [x \in DOMAIN data \cup DOMAIN kw |-> IF x \in DOMAIN kw THEN PyInt(kw[x]) ELSE data[x]]

\* DoppelDict.__setitem__
DoppelDict_setitem(data, k, v) == dict_setitem(data, k, PyList(ListRepeat(<<v>>, 2)))

\* DoppelDict2.__setitem__, over UserDict.__setitem__ (self.data[key] = item)
DoppelDict2_setitem(data, k, v) == dict_setitem(data, k, PyList(ListRepeat(<<v>>, 2)))

\* MutableMapping.update: self[key] = value for each pair
RECURSIVE MutableMapping_update(_, _)
MutableMapping_update(data, kw) ==
    IF DOMAIN kw = {} THEN data
    ELSE LET k == CHOOSE x \in DOMAIN kw : TRUE
         IN  MutableMapping_update(DoppelDict2_setitem(data, k, kw[k]),
                                   [x \in DOMAIN kw \ {k} |-> kw[x]])

\* update that stores the pairs without calling __setitem__
DoppelDict2_update_Bypass(data, kw) == dict_update(data, kw)

\* DoppelDict2.update, inherited by UserDict from MutableMapping
DoppelDict2_update(data, kw) == MutableMapping_update(data, kw)

DoppelClasses == {"DoppelDict", "DoppelDict2"}

\* cls(**kw): dict.__init__ for DoppelDict, UserDict.__init__ (self.update(kwargs)) for DoppelDict2
Doppel_init(cls, kw) ==
    IF cls = "DoppelDict" THEN dict_update(EmptyDict, kw)
    ELSE DoppelDict2_update(EmptyDict, kw)

\* dd[k] = v
Doppel_setitem(cls, data, k, v) ==
    IF cls = "DoppelDict" THEN DoppelDict_setitem(data, k, v)
    ELSE DoppelDict2_setitem(data, k, v)

\* dd.update(**kw)
Doppel_update(cls, data, kw) ==
    IF cls = "DoppelDict" THEN dict_update(data, kw)
    ELSE DoppelDict2_update(data, kw)

Kwargs == UNION {[S -> DoppelValues] : S \in SUBSET DoppelKeys}

\* the log after the pairs of kw arrived by the path given
Logged(log, kw, path) ==
    [x \in DOMAIN log \cup DOMAIN kw |->
        IF x \in DOMAIN kw THEN [value |-> kw[x], path |-> path] ELSE log[x]]

DoppelInit ==
    /\ dd = [cls |-> "none", data |-> EmptyDict]
    /\ ddLog = <<>>

\* dd = DoppelDict(one=1)
NewDoppel(cls, kw) ==
    /\ running = "Doppel"
    /\ dd.cls = "none"
    /\ dd' = [cls |-> cls, data |-> Doppel_init(cls, kw)]
    /\ ddLog' = Logged(<<>>, kw, "init")
    /\ UNCHANGED OthersThanDoppel

\* dd["two"] = 2
DoppelSetItem(k, v) ==
    /\ running = "Doppel"
    /\ dd.cls # "none"
    /\ dd' = [dd EXCEPT !.data = Doppel_setitem(dd.cls, dd.data, k, v)]
    /\ ddLog' = Logged(ddLog, [x \in {k} |-> v], "setitem")
    /\ UNCHANGED OthersThanDoppel

\* dd.update(three=3)
DoppelUpdate(kw) ==
    /\ running = "Doppel"
    /\ dd.cls # "none"
    /\ dd' = [dd EXCEPT !.data = Doppel_update(dd.cls, dd.data, kw)]
    /\ ddLog' = Logged(ddLog, kw, "update")
    /\ UNCHANGED OthersThanDoppel

DoppelNext ==
    \/ \E cls \in DoppelClasses, kw \in Kwargs : NewDoppel(cls, kw)
    \/ \E k \in DoppelKeys, v \in DoppelValues : DoppelSetItem(k, v)
    \/ \E kw \in Kwargs : DoppelUpdate(kw)

\* C16: a DoppelDict holds the value doubled only under the keys last
\* assigned with dd[k] = v, and the value as given under the keys that last
\* arrived through the constructor or update(); a DoppelDict2 holds every
\* value doubled, whichever of the three paths it took.
C16_DoublingPaths ==
    /\ DOMAIN dd.data = DOMAIN ddLog
    /\ \A k \in DOMAIN dd.data :
           IF dd.cls = "DoppelDict" /\ ddLog[k].path \in {"init", "update"}
           THEN dd.data[k] = [kind |-> "int", items |-> <<ddLog[k].value>>]
           ELSE dd.data[k] = [kind |-> "list", items |-> <<ddLog[k].value, ddLog[k].value>>]

\* the three statements of the source, on each class
C16_Witness ==
    /\ dd.cls = "DoppelDict"
    /\ ddLog = [x \in DoppelKeys |->
                   CASE x = "one" -> [value |-> 1, path |-> "init"]
                     [] x = "two" -> [value |-> 2, path |-> "setitem"]
                     [] x = "three" -> [value |-> 3, path |-> "update"]]
    /\ dd.data["one"].kind = "int"
    /\ dd.data["two"].kind = "list"
    /\ dd.data["three"].kind = "int"

C16_Witness2 ==
    /\ dd.cls = "DoppelDict2"
    /\ {ddLog[x].path : x \in DOMAIN ddLog} = {"init", "setitem", "update"}
    /\ \A x \in DOMAIN dd.data : dd.data[x].kind = "list"

(***************************************************************************)
(* UpperCaseMixin over collections.UserDict.  A key is [kind, v]: the type *)
(* of the key and its characters (for an int, its digits).                 *)
(***************************************************************************)
StrKey(chars) == [kind |-> "str", v |-> chars]

BytesKey(chars) == [kind |-> "bytes", v |-> chars]

IntKey(digits) == [kind |-> "int", v |-> digits]

\* the upper case of one character
CharUpper(c) ==
    CASE c = "a" -> "A"
      [] c = "b" -> "B"
      [] OTHER -> c

\* str.upper / bytes.upper
str_upper(chars) == [i \in DOMAIN chars |-> CharUpper(chars[i])]

\* the types that have an upper attribute
HasUpper(key) == key.kind \in {"str", "bytes"}

\* a helper that passes every key through
_upper_Identity(key) == key

\* _upper(key): key._upper(), or the key itself on AttributeError
_upper(key) == IF HasUpper(key) THEN [key EXCEPT !.v = str_upper(key.v)] ELSE key

\* UserDict.__setitem__: self.data[key] = item
UserDict_setitem(data, key, item) ==
    [x \in DOMAIN data \cup {key} |-> IF x = key THEN item ELSE data[x]]

\* UserDict.__getitem__
UserDict_getitem(data, key) ==
    IF key \in DOMAIN data THEN [exc |-> "none", kind |-> "value", value |-> data[key]]
    ELSE [exc |-> "KeyError", kind |-> "None", value |-> 0]

\* UserDict.__contains__: key in self.data
UserDict_contains(data, key) == key \in DOMAIN data

UpperCaseMixin_setitem(data, key, item) == UserDict_setitem(data, _upper(key), item)

UpperCaseMixin_getitem(data, key) == UserDict_getitem(data, _upper(key))

UpperCaseMixin_contains(data, key) == UserDict_contains(data, _upper(key))

\* Mapping.get: self[key], or the default on KeyError
Mapping_get(data, key) ==
    LET r == UpperCaseMixin_getitem(data, key)
    IN  IF r.exc = "KeyError" THEN [exc |-> "none", kind |-> "None", value |-> 0] ELSE r

UpperCaseMixin_get(data, key) == Mapping_get(data, _upper(key))

\* MutableMapping.update from pairs, also run by UserDict.__init__:
\* self[key] = value for each pair in order
RECURSIVE UpperDict_update(_, _)
UpperDict_update(data, pairs) ==
    IF pairs = <<>> THEN data
    ELSE UpperDict_update(UpperCaseMixin_setitem(data, pairs[1].key, pairs[1].value),
                          Tail(pairs))

UpperKeys ==
    { StrKey(<<"a">>), StrKey(<<"A">>), StrKey(<<"b">>), BytesKey(<<"a">>), IntKey(<<"2">>) }

UpperValues == {1, 2}

UpperPairs == SeqsUpTo([key : UpperKeys, value : UpperValues], 2)

NoKey == [kind |-> "none", v |-> <<>>]

NoResult == [exc |-> "none", kind |-> "None", value |-> 0]

Stored(pairs) ==
    [op |-> "store",
     key |-> IF pairs = <<>> THEN NoKey ELSE pairs[Len(pairs)].key,
     result |-> IF pairs = <<>> THEN NoResult
                ELSE [exc |-> "none", kind |-> "value", value |-> pairs[Len(pairs)].value]]

UpperInit ==
    /\ ud = [made |-> FALSE, data |-> <<>>]
    /\ udLast = [op |-> "idle", key |-> NoKey, result |-> NoResult]

\* d = UpperDict([('a', 'letter A'), (2, 'digit two')])
NewUpperDict(pairs) ==
    /\ running = "UpperDict"
    /\ ~ud.made
    /\ ud' = [made |-> TRUE, data |-> UpperDict_update(<<>>, pairs)]
    /\ udLast' = Stored(pairs)
    /\ UNCHANGED OthersThanUpper

\* d['b'] = 'letter B'
UpperSetItem(key, value) ==
    /\ running = "UpperDict"
    /\ ud.made
    /\ ud' = [ud EXCEPT !.data = UpperCaseMixin_setitem(ud.data, key, value)]
    /\ udLast' = Stored(<<[key |-> key, value |-> value]>>)
    /\ UNCHANGED OthersThanUpper

\* d.update(pairs)
UpperUpdate(pairs) ==
    /\ running = "UpperDict"
    /\ ud.made
    /\ ud' = [ud EXCEPT !.data = UpperDict_update(ud.data, pairs)]
    /\ udLast' = Stored(pairs)
    /\ UNCHANGED OthersThanUpper

\* d['a']
UpperGetItem(key) ==
    /\ running = "UpperDict"
    /\ ud.made
    /\ udLast' = [op |-> "getitem", key |-> key, result |-> UpperCaseMixin_getitem(ud.data, key)]
    /\ UNCHANGED <<ud, OthersThanUpper>>

\* d.get('B')
UpperGet(key) ==
    /\ running = "UpperDict"
    /\ ud.made
    /\ udLast' = [op |-> "get", key |-> key, result |-> UpperCaseMixin_get(ud.data, key)]
    /\ UNCHANGED <<ud, OthersThanUpper>>

\* 'b' in d
UpperContains(key) ==
    /\ running = "UpperDict"
    /\ ud.made
    /\ udLast' = [op |-> "contains", key |-> key,
                  result |-> [exc |-> "none", kind |-> "bool",
                              value |-> IF UpperCaseMixin_contains(ud.data, key) THEN 1 ELSE 0]]
    /\ UNCHANGED <<ud, OthersThanUpper>>

UpperNext ==
    \/ \E pairs \in UpperPairs : NewUpperDict(pairs)
    \/ \E key \in UpperKeys, value \in UpperValues : UpperSetItem(key, value)
    \/ \E pairs \in UpperPairs : UpperUpdate(pairs)
    \/ \E key \in UpperKeys : UpperGetItem(key)
    \/ \E key \in UpperKeys : UpperGet(key)
    \/ \E key \in UpperKeys : UpperContains(key)

IsUpperCase(chars) == \A i \in DOMAIN chars : chars[i] \notin {"a", "b"}

\* what a lookup of key must find when the entry is filed under the key given
Finds(stored) ==
    CASE udLast.op = "getitem" ->
             IF stored \in DOMAIN ud.data
             THEN udLast.result = [exc |-> "none", kind |-> "value", value |-> ud.data[stored]]
             ELSE udLast.result.exc = "KeyError"
      [] udLast.op = "get" ->
             IF stored \in DOMAIN ud.data
             THEN udLast.result = [exc |-> "none", kind |-> "value", value |-> ud.data[stored]]
             ELSE udLast.result = NoResult
      [] udLast.op = "contains" ->
             udLast.result.value = IF stored \in DOMAIN ud.data THEN 1 ELSE 0
      [] udLast.op = "store" ->
             stored \in DOMAIN ud.data /\ ud.data[stored] = udLast.result.value
      [] OTHER -> TRUE

\* C17 as stated: every str key stored is upper case and every key that is
\* not a str is stored as given; a lookup with a str of any case finds the
\* entry stored under its upper case.
C17_NonStringKeysUnchanged ==
    /\ \A k \in DOMAIN ud.data : k.kind = "str" => IsUpperCase(k.v)
    /\ udLast.key.kind = "str" => Finds(StrKey(str_upper(udLast.key.v)))
    /\ udLast.key.kind \in {"int", "bytes"} => Finds(udLast.key)

\* C17, amended: every key that has an upper() method (a str, and also a
\* bytes) is stored as key.upper(), and only a key without one is stored as
\* given; d[k], d.get(k) and k in d find the entry stored under that key.
C17_KeysWithUpperNormalised ==
    /\ \A k \in DOMAIN ud.data : k.kind \in {"str", "bytes"} => IsUpperCase(k.v)
    /\ udLast.key.kind = "str" => Finds(StrKey(str_upper(udLast.key.v)))
    /\ udLast.key.kind = "bytes" => Finds(BytesKey(str_upper(udLast.key.v)))
    /\ udLast.key.kind = "int" => Finds(udLast.key)

\* the dict of the source, extended with a bytes key, looked up in lower case
C17_Witness ==
    /\ DOMAIN ud.data = {StrKey(<<"A">>), IntKey(<<"2">>), BytesKey(<<"A">>)}
    /\ udLast.op = "getitem"
    /\ udLast.key = StrKey(<<"a">>)
    /\ udLast.result.exc = "none"

(***************************************************************************)
(* LastUpdatedOrderedDict: an OrderedDict whose __setitem__ is meant to    *)
(* move the key assigned to the end.  The mapping is the sequence of its   *)
(* [key, value] pairs in iteration order.                                  *)
(***************************************************************************)
LuodKeys == {"a", "b", "c"}

LuodValues == {1, 2}

HasKey(pairs, key) == \E i \in DOMAIN pairs : pairs[i].key = key

\* OrderedDict.__setitem__: a new key goes last, a key already there keeps its place
OrderedDict_setitem(pairs, key, value) ==
    IF HasKey(pairs, key)
    THEN [i \in DOMAIN pairs |-> IF pairs[i].key = key THEN [key |-> key, value |-> value]
                                 ELSE pairs[i]]
    ELSE Append(pairs, [key |-> key, value |-> value])

\* OrderedDict.move_to_end(key, last=True), called with the positional
\* arguments given: key is required
OrderedDict_move_to_end(pairs, args) ==
    IF args = <<>> THEN [exc |-> "TypeError", pairs |-> pairs]
    ELSE IF ~HasKey(pairs, args[1]) THEN [exc |-> "KeyError", pairs |-> pairs]
    ELSE [exc |-> "none",
          pairs |-> SelectSeq(pairs, LAMBDA p : p.key # args[1])
                    \o SelectSeq(pairs, LAMBDA p : p.key = args[1])]

\* LastUpdatedOrderedDict.__setitem__: super().__setitem__(key, value), then
\* self.move_to_end() with no argument
LastUpdatedOrderedDict_setitem(pairs, key, value) ==
    OrderedDict_move_to_end(OrderedDict_setitem(pairs, key, value), <<>>)

LuodInit ==
    /\ od = <<>>
    /\ odLast = [op |-> "idle", key |-> "none", value |-> 0, exc |-> "none"]

\* d[key] = value
LuodSetItem(key, value) ==
    /\ running = "LastUpdated"
    /\ LET r == LastUpdatedOrderedDict_setitem(od, key, value)
       IN  /\ od' = r.pairs
           /\ odLast' = [op |-> "setitem", key |-> key, value |-> value, exc |-> r.exc]
    /\ UNCHANGED OthersThanLuod

LuodNext == \E key \in LuodKeys, value \in LuodValues : LuodSetItem(key, value)

\* C18: d[k] = v completes, stores the pair and leaves k as the last key in
\* iteration order, whether k was new or already present.
C18_AssignedKeyIsLast ==
    odLast.op = "setitem" =>
        /\ odLast.exc = "none"
        /\ od # <<>>
        /\ od[Len(od)] = [key |-> odLast.key, value |-> odLast.value]

\* C18, what the code does: the pair is stored and then TypeError is raised;
\* a key that was already present is where it was.
C18_AssignmentRaisesTypeError ==
    odLast.op = "setitem" =>
        /\ odLast.exc = "TypeError"
        /\ \E i \in DOMAIN od : od[i] = [key |-> odLast.key, value |-> odLast.value]

\* a key assigned again after the others stays first
C18_StaleOrder ==
    /\ Len(od) = 2
    /\ odLast.key = od[1].key
    /\ odLast.value = 2
    /\ od[1].value = 2

(***************************************************************************)
(* The Vector classes: slicing, indexing and hashing.  A number is         *)
(* [type, val]; array('d', ...) holds floats.  None is the empty sequence  *)
(* and an int i the sequence <<i>> where either may stand (slice fields).  *)
(***************************************************************************)
MaxVecLen == 7      \* longest vector sliced: Vector(range(MaxVecLen))
MaxHashLen == 2     \* longest vector hashed

PyNum(n) == [type |-> "int", val |-> n]

\* float(x)
float(x) == [type |-> "float", val |-> x.val]

\* range(n)
range(n) == [i \in 1 .. n |-> PyNum(i - 1)]

\* array(typecode, components) with typecode 'd'
array(components) == [i \in DOMAIN components |-> float(components[i])]

\* Vector.__init__
Vector_init(cls, components) == [cls |-> cls, components |-> array(components)]

Max2(a, b) == IF a >= b THEN a ELSE b

Min2(a, b) == IF a <= b THEN a ELSE b

\* slice(start, stop, step).indices(len): the start, stop and step in force
slice_indices(key, len) ==
    LET step == IF key.step = <<>> THEN 1 ELSE key.step[1]
        lower == IF step > 0 THEN 0 ELSE -1
        upper == IF step > 0 THEN len ELSE len - 1
        Clip(f, default) ==
            IF f = <<>> THEN default
            ELSE IF f[1] < 0 THEN Max2(f[1] + len, lower)
            ELSE Min2(f[1], upper)
    IN  [start |-> Clip(key.start, IF step > 0 THEN lower ELSE upper),
         stop |-> Clip(key.stop, IF step > 0 THEN upper ELSE lower),
         step |-> step]

\* the items at start, start + step, ... short of stop
RECURSIVE SliceItems(_, _, _, _)
SliceItems(items, start, stop, step) ==
    IF (step > 0 /\ start >= stop) \/ (step < 0 /\ start <= stop) THEN <<>>
    ELSE <<items[start + 1]>> \o SliceItems(items, start + step, stop, step)

\* array.__getitem__ with a slice
array_getslice(items, key) ==
    LET ix == slice_indices(key, Len(items))
    IN  SliceItems(items, ix.start, ix.stop, ix.step)

\* array.__getitem__ with an index
array_getitem(items, index) ==
    IF index >= Len(items) \/ index < -Len(items)
    THEN [exc |-> "IndexError", kind |-> "None", cls |-> "None", components |-> <<>>]
    ELSE [exc |-> "none", kind |-> "scalar", cls |-> "float",
          components |-> << items[IF index < 0 THEN index + Len(items) + 1 ELSE index + 1] >>]

\* Vector2.__getitem__, inherited by Vector3 and Vector4
Vector2_getitem(v, key) ==
    IF key.kind = "slice"
    THEN [exc |-> "none", kind |-> "vector", cls |-> v.cls,
          components |-> Vector_init(v.cls, array_getslice(v.components, key)).components]
    ELSE array_getitem(v.components, key.index)

\* __getitem__ of Vector1: the slice of the array, as it is
Vector_getitem_RawArray(v, key) ==
    IF key.kind = "slice"
    THEN [exc |-> "none", kind |-> "array", cls |-> "array",
          components |-> array_getslice(v.components, key)]
    ELSE array_getitem(v.components, key.index)

\* Vector.__getitem__ of the final Vector
Vector_getitem(v, key) ==
    IF key.kind = "slice"
    THEN [exc |-> "none", kind |-> "vector", cls |-> v.cls,
          components |-> Vector_init(v.cls, array_getslice(v.components, key)).components]
    ELSE array_getitem(v.components, key.index)

SliceAware == {"Vector2", "Vector3", "Vector4", "Vector"}

\* v[key]
GetItem(v, key) ==
    IF v.cls = "Vector" THEN Vector_getitem(v, key) ELSE Vector2_getitem(v, key)

\* hash(x) of a float or int with a small non-negative integral value
hash(x) == x.val

\* operator.xor on non-negative ints
RECURSIVE xor(_, _)
xor(a, b) ==
    IF a = 0 THEN b
    ELSE IF b = 0 THEN a
    ELSE (((a % 2) + (b % 2)) % 2) + 2 * xor(a \div 2, b \div 2)

\* functools.reduce(operator.xor, hashes, initial)
RECURSIVE reduce_xor(_, _)
reduce_xor(hashes, initial) ==
    IF hashes = <<>> THEN initial
    ELSE reduce_xor(Tail(hashes), xor(initial, hashes[1]))

\* a fold in which the position of a component counts
RECURSIVE reduce_shift_xor(_, _)
reduce_shift_xor(hashes, initial) ==
    IF hashes = <<>> THEN initial
    ELSE reduce_shift_xor(Tail(hashes), xor(2 * initial, hashes[1]))

\* Vector4.__hash__
Vector4_hash(v) == reduce_xor([i \in DOMAIN v.components |-> hash(v.components[i])], 0)

Vector_hash_Positional(v) ==
    reduce_shift_xor([i \in DOMAIN v.components |-> hash(v.components[i])], 0)

\* Vector.__hash__ of the final Vector
Vector_hash(v) == reduce_xor([i \in DOMAIN v.components |-> hash(v.components[i])], 0)

Hashable == {"Vector4", "Vector"}

Hash(v) == IF v.cls = "Vector" THEN Vector_hash(v) ELSE Vector4_hash(v)

IndexKey(i) == [kind |-> "index", index |-> i, start |-> <<>>, stop |-> <<>>, step |-> <<>>]

SliceKey(start, stop, step) ==
    [kind |-> "slice", index |-> 0, start |-> start, stop |-> stop, step |-> step]

SliceEnds == {<<>>} \cup {<<i>> : i \in {-(MaxVecLen + 1), -1, 1, 4, MaxVecLen + 1}}

SliceSteps == {<<>>, <<2>>, <<-1>>}

VectorKeys ==
    {IndexKey(i) : i \in -(MaxVecLen + 1) .. MaxVecLen + 1}
    \cup {SliceKey(a, b, s) : a \in SliceEnds, b \in SliceEnds, s \in SliceSteps}

VectorLengths == {0, 1, 4, MaxVecLen}

HashedComponents == SeqsUpTo({PyNum(1), PyNum(2), PyNum(3)}, MaxHashLen)

NoVector == [cls |-> "none", components |-> <<>>]

NoVectorResult == [exc |-> "none", kind |-> "None", cls |-> "None", components |-> <<>>]

VectorInit ==
    /\ vec = NoVector
    /\ vecLast = [op |-> "idle", key |-> IndexKey(0), result |-> NoVectorResult, value |-> 0]
    /\ hashPrev = [set |-> FALSE, components |-> <<>>, value |-> 0]

\* v7 = Vector2(range(7))
NewVector(cls, n) ==
    /\ running = "VectorSlice"
    /\ vec = NoVector
    /\ vec' = Vector_init(cls, range(n))
    /\ UNCHANGED <<vecLast, hashPrev, OthersThanVector>>

\* v7[key]
VectorGetItem(key) ==
    /\ running = "VectorSlice"
    /\ vec # NoVector
    /\ vecLast' = [op |-> "getitem", key |-> key, result |-> GetItem(vec, key), value |-> 0]
    /\ UNCHANGED <<vec, hashPrev, OthersThanVector>>

\* hash(Vector(components))
VectorHash(cls, components) ==
    /\ running = "VectorHash"
    /\ vec' = Vector_init(cls, components)
    /\ vecLast' = [op |-> "hash", key |-> IndexKey(0), result |-> NoVectorResult,
                   value |-> Hash(vec')]
    /\ hashPrev' = IF vecLast.op = "hash"
                   THEN [set |-> TRUE, components |-> vec.components, value |-> vecLast.value]
                   ELSE hashPrev
    /\ UNCHANGED OthersThanVector

VectorNext ==
    \/ \E cls \in SliceAware, n \in VectorLengths : NewVector(cls, n)
    \/ \E key \in VectorKeys : VectorGetItem(key)
    \/ \E cls \in Hashable, components \in HashedComponents : VectorHash(cls, components)

\* the end of the range i:j that a bound given (or left out) stands for
Bound(f, len, default) ==
    IF f = <<>> THEN default
    ELSE IF f[1] < 0 THEN (IF f[1] + len < 0 THEN 0 ELSE f[1] + len)
    ELSE IF f[1] > len THEN len ELSE f[1]

Floats(ns) == [i \in DOMAIN ns |-> [type |-> "float", val |-> ns[i]]]

\* C19: v[i:j] is a vector of v's class holding the components i..j-1 in
\* order, v[i] for an index in range (negative ones count from the end) is
\* that component; Vector(range(7))[1:4] holds 1, 2, 3 and [-1] is 6.
C19_SliceGivesVectorIndexGivesScalar ==
    vecLast.op = "getitem" =>
        LET key == vecLast.key
            res == vecLast.result
            len == Len(vec.components)
        IN  /\ key.kind = "slice" =>
                   /\ res.exc = "none" /\ res.kind = "vector" /\ res.cls = vec.cls
                   /\ key.step = <<>> =>
                          res.components = SubSeq(vec.components, Bound(key.start, len, 0) + 1,
                                                  Bound(key.stop, len, len))
            /\ key.kind = "index" /\ -len <= key.index /\ key.index < len =>
                   /\ res.exc = "none" /\ res.kind = "scalar"
                   /\ res.components = << vec.components[((key.index + len) % len) + 1] >>
            /\ len = 7 /\ key = SliceKey(<<1>>, <<4>>, <<>>) =>
                   res.components = Floats(<<1, 2, 3>>)
            /\ len = 7 /\ key = IndexKey(-1) => res.components = Floats(<<6>>)

C19_Witness ==
    /\ vec = [cls |-> "Vector", components |-> Floats(<<0, 1, 2, 3, 4, 5, 6>>)]
    /\ vecLast.op = "getitem"
    /\ vecLast.key = SliceKey(<<1>>, <<4>>, <<>>)
    /\ vecLast.result = [exc |-> "none", kind |-> "vector", cls |-> "Vector",
                         components |-> Floats(<<1, 2, 3>>)]

IsReordering(s, t) ==
    /\ Len(s) = Len(t)
    /\ s # t
    /\ \A x \in Range(s) \cup Range(t) : Count(s, x) = Count(t, x)

BothHashed == vecLast.op = "hash" /\ hashPrev.set

\* C20 as stated: two vectors of the same components in the same order hash
\* alike, and two vectors (x, y) and (y, x) with hash(x) # hash(y) hash
\* differently.
C20_ReorderingChangesHash ==
    BothHashed =>
        /\ hashPrev.components = vec.components => hashPrev.value = vecLast.value
        /\ ( /\ Len(vec.components) = 2
             /\ IsReordering(hashPrev.components, vec.components)
             /\ hash(vec.components[1]) # hash(vec.components[2]) )
           => hashPrev.value # vecLast.value

\* C20, amended: two vectors of the same components hash alike in whatever
\* order the components come: the XOR fold does not see the order.
C20_HashIgnoresOrder ==
    BothHashed =>
        /\ hashPrev.components = vec.components => hashPrev.value = vecLast.value
        /\ IsReordering(hashPrev.components, vec.components) => hashPrev.value = vecLast.value

\* Vector((1, 2)) and Vector((2, 1)) both hash to 3
C20_Witness ==
    /\ BothHashed
    /\ hashPrev.components = Floats(<<1, 2>>)
    /\ vec.components = Floats(<<2, 1>>)
    /\ hashPrev.value = 3
    /\ vecLast.value = 3

(***************************************************************************)
(* The Vector classes: attribute assignment, abs(), bool() and format().   *)
(* A str (attribute name, format spec) is the sequence of its characters.  *)
(***************************************************************************)
RecursionLimit == 4     \* frames the interpreter allows before RecursionError

MaxVobjLen == 2         \* longest vector built here

match_args == {"x", "y", "z", "t"}

LowerCase == {"x", "y", "z", "t", "a", "b"}

UpperCase == {"A"}

\* str.islower: there is a cased character and no cased character is upper case
str_islower(name) ==
    /\ \E i \in DOMAIN name : name[i] \in LowerCase
    /\ \A i \in DOMAIN name : name[i] \notin UpperCase

\* object.__setattr__: the value goes into the instance
object_setattr(v, name, value) ==
    [exc |-> "none",
     obj |-> [v EXCEPT !.attrs = [n \in DOMAIN v.attrs \cup {name} |->
                                     IF n = name THEN value ELSE v.attrs[n]]]]

\* Vector3.__setattr__, inherited by Vector4
Vector3_setattr(v, name, value) ==
    LET error == IF Len(name) = 1
                 THEN IF name[1] \in match_args THEN "readonly attribute"
                      ELSE IF str_islower(name) THEN "can't set attributes 'a' to 'z'"
                      ELSE ""
                 ELSE ""
    IN  IF error # "" THEN [exc |-> "AttributeError", obj |-> v]
        ELSE object_setattr(v, name, value)

\* the final Vector defines no __setattr__: object.__setattr__ runs
Vector_setattr(v, name, value) == object_setattr(v, name, value)

\* v.name = value
SetAttr(v, name, value) ==
    IF v.cls = "Vector" THEN Vector_setattr(v, name, value)
    ELSE Vector3_setattr(v, name, value)

\* math.hypot(*self): kept as the sum of the squares under the root
RECURSIVE SumOfSquares(_)
SumOfSquares(components) ==
    IF components = <<>> THEN 0
    ELSE components[1] * components[1] + SumOfSquares(Tail(components))

\* Vector.__abs__ of take 1: math.hypot(*self)
VectorTake1_abs(v) == [exc |-> "none", kind |-> "float", sq |-> SumOfSquares(v.components)]

\* bool(x) of a call outcome: an exception passes through
PyBool(r) ==
    IF r.exc # "none" THEN r
    ELSE [exc |-> "none", kind |-> "bool", sq |-> IF r.sq # 0 THEN 1 ELSE 0]

\* Vector.__bool__ of take 1: bool(abs(self))
VectorTake1_bool(v) == PyBool(VectorTake1_abs(v))

\* Vector.__abs__ of the final Vector: bool(abs(self)), where abs(self) is
\* this method again; depth counts the frames already on the stack
RECURSIVE Vector_abs(_, _)
Vector_abs(v, depth) ==
    IF depth >= RecursionLimit THEN [exc |-> "RecursionError", kind |-> "None", sq |-> 0]
    ELSE PyBool(Vector_abs(v, depth + 1))

\* Vector.__bool__ of the final Vector: bool(abs(self))
Vector_bool(v, depth) ==
    IF depth >= RecursionLimit THEN [exc |-> "RecursionError", kind |-> "None", sq |-> 0]
    ELSE PyBool(Vector_abs(v, depth + 1))

\* abs(v)
Abs(v) == IF v.cls = "Vector" THEN Vector_abs(v, 0) ELSE VectorTake1_abs(v)

\* bool(v)
Bool(v) == IF v.cls = "Vector" THEN Vector_bool(v, 0) ELSE VectorTake1_bool(v)

str_endswith(s, c) == s # <<>> /\ s[Len(s)] = c

NoText == [exc |-> "none", open |-> "", items |-> <<>>]

\* Vector.angle called with the positional arguments given: n is required
Vector_angle(v, args) ==
    IF args = <<>> THEN [exc |-> "TypeError"] ELSE [exc |-> "none"]

\* Vector.__format__: the text is [open, items], each item a number under
\* the format spec applied to it
Vector_format(v, format_spec) ==
    IF str_endswith(format_spec, "h")
    THEN LET magnitude == Vector_abs(v, 0)
             angles == Vector_angle(v, <<>>)
         IN  IF magnitude.exc # "none" THEN [NoText EXCEPT !.exc = magnitude.exc]
             ELSE IF angles.exc # "none" THEN [NoText EXCEPT !.exc = angles.exc]
             ELSE [exc |-> "none", open |-> "<",
                   items |-> <<[val |-> magnitude.sq,
                                spec |-> SubSeq(format_spec, 1, Len(format_spec) - 1)]>>]
    ELSE [exc |-> "none", open |-> "(",
          items |-> [i \in DOMAIN v.components |->
                        [val |-> v.components[i], spec |-> format_spec]]]

AttrNames == { <<"x">>, <<"a">>, <<"A">>, <<"a", "b">> }

AttrValues == {10}

FormatSpecs == { <<>>, <<".", "2", "f">>, <<"h">>, <<".", "2", "f", "h">> }

VobjComponents == SeqsUpTo({0, 3, 4}, MaxVobjLen)

\* the classes each snippet builds
VobjClasses ==
    CASE running = "VectorAttr" -> {"Vector3", "Vector4", "Vector"}
      [] running = "VectorAbs" -> {"VectorTake1", "Vector"}
      [] running = "VectorFormat" -> {"Vector"}
      [] OTHER -> {}

NoVobj == [cls |-> "none", components |-> <<>>, attrs |-> <<>>]

VattrInit ==
    /\ vobj = NoVobj
    /\ vout = [op |-> "idle", name |-> <<>>, exc |-> "none", before |-> NoVobj,
               text |-> NoText, kind |-> "None", sq |-> 0]

\* v = Vector(components)
NewVobj(cls, components) ==
    /\ vobj = NoVobj
    /\ vobj' = [cls |-> cls, components |-> components, attrs |-> <<>>]
    /\ UNCHANGED <<vout, OthersThanVattr>>

\* v.name = value
VectorSetAttr(name, value) ==
    /\ running = "VectorAttr"
    /\ vobj # NoVobj
    /\ LET r == SetAttr(vobj, name, value)
       IN  /\ vobj' = r.obj
           /\ vout' = [op |-> "setattr", name |-> name, exc |-> r.exc, before |-> vobj,
                       text |-> NoText, kind |-> "None", sq |-> value]
    /\ UNCHANGED OthersThanVattr

\* abs(v)
VectorAbs ==
    /\ running = "VectorAbs"
    /\ vobj # NoVobj
    /\ LET r == Abs(vobj)
       IN  vout' = [op |-> "abs", name |-> <<>>, exc |-> r.exc, before |-> vobj,
                    text |-> NoText, kind |-> r.kind, sq |-> r.sq]
    /\ UNCHANGED <<vobj, OthersThanVattr>>

\* bool(v)
VectorBool ==
    /\ running = "VectorAbs"
    /\ vobj # NoVobj
    /\ LET r == Bool(vobj)
       IN  vout' = [op |-> "bool", name |-> <<>>, exc |-> r.exc, before |-> vobj,
                    text |-> NoText, kind |-> r.kind, sq |-> r.sq]
    /\ UNCHANGED <<vobj, OthersThanVattr>>

\* format(v, format_spec)
VectorFormat(format_spec) ==
    /\ running = "VectorFormat"
    /\ vobj # NoVobj
    /\ LET r == Vector_format(vobj, format_spec)
       IN  vout' = [op |-> "format", name |-> format_spec, exc |-> r.exc, before |-> vobj,
                    text |-> r, kind |-> "str", sq |-> 0]
    /\ UNCHANGED <<vobj, OthersThanVattr>>

VattrNext ==
    \/ \E cls \in VobjClasses, components \in VobjComponents : NewVobj(cls, components)
    \/ \E name \in AttrNames, value \in AttrValues : VectorSetAttr(name, value)
    \/ VectorAbs
    \/ VectorBool
    \/ \E format_spec \in FormatSpecs : VectorFormat(format_spec)

\* C21: on Vector3, Vector4 and the final Vector, assigning to a name that
\* is one lowercase letter raises AttributeError and leaves the vector as it
\* was; assigning to a name of several characters sets the attribute.
C21_SingleLetterAssignmentRaises ==
    vout.op = "setattr" =>
        IF Len(vout.name) = 1 /\ vout.name[1] \in LowerCase
        THEN vout.exc = "AttributeError" /\ vobj = vout.before
        ELSE Len(vout.name) > 1 =>
                 /\ vout.exc = "none"
                 /\ vout.name \in DOMAIN vobj.attrs
                 /\ vobj.attrs[vout.name] = vout.sq

\* C21 restricted to the classes that have the __setattr__ override
C21_HoldsWithOverride == vobj.cls \in {"Vector3", "Vector4"} => C21_SingleLetterAssignmentRaises

\* C22: format(v, spec) of the final Vector completes; with a spec ending in
\* 'h' the text is <...> holding the magnitude and the len(v) - 1 angles,
\* otherwise it is (...) holding the components, each under the spec.
C22_FormatRenders ==
    vout.op = "format" =>
        /\ vout.exc = "none"
        /\ IF str_endswith(vout.name, "h")
           THEN /\ vout.text.open = "<"
                /\ Len(vout.text.items) = Len(vobj.components)
           ELSE /\ vout.text.open = "("
                /\ vout.text.items = [i \in DOMAIN vobj.components |->
                                         [val |-> vobj.components[i], spec |-> vout.name]]

\* C22, the part that holds: a spec not ending in 'h' renders the components
C22_CartesianRenders ==
    vout.op = "format" /\ ~str_endswith(vout.name, "h") => C22_FormatRenders

\* C30: abs(v) and bool(v) of the final Vector return, and bool(v) is false
\* exactly when every component is zero.
C30_AbsAndBoolReturn ==
    vout.op \in {"abs", "bool"} /\ vobj.cls = "Vector" =>
        /\ vout.exc = "none"
        /\ vout.op = "bool" =>
               (vout.sq = 0 <=> \A i \in DOMAIN vobj.components : vobj.components[i] = 0)

\* C30 on the first Vector class, whose __abs__ is math.hypot(*self)
C30_HoldsForTake1 ==
    vout.op \in {"abs", "bool"} /\ vobj.cls = "VectorTake1" =>
        /\ vout.exc = "none"
        /\ vout.op = "bool" =>
               (vout.sq = 0 <=> \A i \in DOMAIN vobj.components : vobj.components[i] = 0)
(***************************************************************************)
(* Vector2d: the hashable class and version 3, and keyword_pattern_demo.   *)
(* Numbers are the [type, val] records of the Vector section.              *)
(***************************************************************************)
\* a method bound to the instance, as self.y is when y is a plain function
BoundMethod == [type |-> "method", val |-> 0]

\* a == b: numbers compare by magnitude, a method equals no number
PyEq(a, b) ==
    IF a.type = "method" \/ b.type = "method" THEN a = b
    ELSE a.val = b.val

\* what the class body binds to each name: in the hashable Vector2d x and y
\* are both under @property; in version 3 the line above y is the bare
\* expression "property", so y stays a plain function
ClassAttr(cls, name) ==
    IF name = "x" THEN "property"
    ELSE IF name = "y" THEN (IF cls = "Vector2dHashable" THEN "property" ELSE "function")
    ELSE "absent"

\* Vector2d.__init__
Vector2d_init(cls, x, y) ==
    [cls |-> cls, _x |-> float(x), _y |-> float(y), dict |-> <<>>]

\* the getters x and y
Vector2d_x(v) == v._x

Vector2d_y(v) == v._y

\* v.name: a property is a data descriptor and wins over the instance
\* dictionary; a function is found after it and comes back bound
V2dGetAttr(v, name) ==
    IF ClassAttr(v.cls, name) = "property"
    THEN IF name = "x" THEN Vector2d_x(v) ELSE Vector2d_y(v)
    ELSE IF name \in DOMAIN v.dict THEN v.dict[name]
    ELSE BoundMethod

\* v.name = value: a property without a setter refuses, anything else is
\* stored in the instance dictionary
V2dSetAttr(v, name, value) ==
    IF ClassAttr(v.cls, name) = "property"
    THEN [exc |-> "AttributeError", obj |-> v]
    ELSE [exc |-> "none",
          obj |-> [v EXCEPT !.dict = [n \in DOMAIN v.dict \cup {name} |->
                                         IF n = name THEN value ELSE v.dict[n]]]]

\* Vector2d.__iter__: (i for i in (self.x, self.y))
Vector2d_iter(v) == <<V2dGetAttr(v, "x"), V2dGetAttr(v, "y")>>

\* Vector2d.__repr__ of version 3: '{}({!r}, {!r})'.format(class_name, *self);
\* the repr of a bound method holds the repr of its instance, which is this
\* call again.  The hashable class has no __repr__: object.__repr__ runs.
RECURSIVE Vector2d_repr(_, _)
Vector2d_repr(v, depth) ==
    IF v.cls = "Vector2dHashable" THEN [exc |-> "none", items |-> <<>>]
    ELSE IF depth >= RecursionLimit THEN [exc |-> "RecursionError", items |-> <<>>]
    ELSE LET items == Vector2d_iter(v)
         IN  IF \E i \in DOMAIN items : items[i].type = "method"
             THEN LET inner == Vector2d_repr(v, depth + 1)
                  IN  IF inner.exc # "none" THEN inner
                      ELSE [exc |-> "none", items |-> items]
             ELSE [exc |-> "none", items |-> items]

\* the case of keyword_pattern_demo that matches v, tested top to bottom
MatchedCase(v) ==
    LET x == V2dGetAttr(v, "x")
        y == V2dGetAttr(v, "y")
    IN  IF PyEq(x, PyNum(0)) /\ PyEq(y, PyNum(0)) THEN "null"
        ELSE IF PyEq(x, PyNum(0)) THEN "vertical"
        ELSE IF PyEq(y, PyNum(0)) THEN "horizontal"
        ELSE IF PyEq(x, y) THEN "diagonal"
        ELSE "awesome"

\* keyword_pattern_demo(v): the matched case prints f'{v!r} is ...'
keyword_pattern_demo(v) ==
    LET r == Vector2d_repr(v, 0)
    IN  [exc |-> r.exc,
         printed |-> IF r.exc = "none" THEN MatchedCase(v) ELSE "",
         case |-> MatchedCase(v)]

Coordinates == {PyNum(0), PyNum(1), PyNum(2)}

V2dClasses == IF running = "Vector2d" THEN {"Vector2dHashable", "Vector2dV3"} ELSE {}

V2dNames == {"x", "y", "z"}

V2dValues == {PyNum(5)}

NoV2d == [cls |-> "none", _x |-> float(PyNum(0)), _y |-> float(PyNum(0)), dict |-> <<>>]

V2dIdle == [op |-> "idle", name |-> "", exc |-> "none", before |-> NoV2d,
            items |-> <<>>, printed |-> "", case |-> ""]

V2dInit ==
    /\ v2d = NoV2d
    /\ v2dLast = V2dIdle

\* v = Vector2d(x, y)
NewVector2d(cls, x, y) ==
    /\ v2d = NoV2d
    /\ v2d' = Vector2d_init(cls, x, y)
    /\ UNCHANGED <<v2dLast, OthersThanV2d>>

\* v.name = value
Vector2dAssign(name, value) ==
    /\ running = "Vector2d"
    /\ v2d # NoV2d
    /\ LET r == V2dSetAttr(v2d, name, value)
       IN  /\ v2d' = r.obj
           /\ v2dLast' = [V2dIdle EXCEPT !.op = "setattr", !.name = name,
                                         !.exc = r.exc, !.before = v2d]
    /\ UNCHANGED OthersThanV2d

\* list(v)
Vector2dIterate ==
    /\ running = "Vector2d"
    /\ v2d # NoV2d
    /\ v2dLast' = [V2dIdle EXCEPT !.op = "iter", !.before = v2d,
                                  !.items = Vector2d_iter(v2d)]
    /\ UNCHANGED <<v2d, OthersThanV2d>>

\* keyword_pattern_demo(v)
KeywordPatternDemo ==
    /\ running = "Vector2d"
    /\ v2d # NoV2d
    /\ LET r == keyword_pattern_demo(v2d)
       IN  v2dLast' = [V2dIdle EXCEPT !.op = "demo", !.before = v2d, !.exc = r.exc,
                                      !.printed = r.printed, !.case = r.case]
    /\ UNCHANGED <<v2d, OthersThanV2d>>

V2dNext ==
    \/ \E cls \in V2dClasses, x \in Coordinates, y \in Coordinates : NewVector2d(cls, x, y)
    \/ \E name \in V2dNames, value \in V2dValues : Vector2dAssign(name, value)
    \/ Vector2dIterate
    \/ KeywordPatternDemo

\* C23: in Vector2d version 3, iterating yields the stored x then the
\* stored y, both floats, and assigning v.x or v.y raises and leaves both
\* coordinates as they were.
C23_CoordinatesReadOnly ==
    v2d.cls = "Vector2dV3" =>
        /\ v2dLast.op = "iter" => v2dLast.items = <<v2d._x, v2d._y>>
        /\ v2dLast.op = "setattr" /\ v2dLast.name \in {"x", "y"} =>
               /\ v2dLast.exc # "none"
               /\ V2dGetAttr(v2d, "x") = V2dGetAttr(v2dLast.before, "x")
               /\ V2dGetAttr(v2d, "y") = V2dGetAttr(v2dLast.before, "y")

\* C23 on the hashable Vector2d, where both getters are under @property
C23_HoldsForHashable ==
    v2d.cls = "Vector2dHashable" =>
        /\ v2dLast.op = "iter" => v2dLast.items = <<v2d._x, v2d._y>>
        /\ v2dLast.op = "setattr" /\ v2dLast.name \in {"x", "y"} =>
               /\ v2dLast.exc # "none"
               /\ v2d = v2dLast.before

\* C24: keyword_pattern_demo on a Vector2d of version 3 reports the first
\* matching case: null when both coordinates are zero, vertical when x is
\* zero, horizontal when y is zero, diagonal when x equals y, else awesome.
C24_FirstMatchingCase ==
    v2dLast.op = "demo" /\ v2d.cls = "Vector2dV3" =>
        /\ v2dLast.exc = "none"
        /\ v2dLast.printed =
               IF v2d._x.val = 0 /\ v2d._y.val = 0 THEN "null"
               ELSE IF v2d._x.val = 0 THEN "vertical"
               ELSE IF v2d._y.val = 0 THEN "horizontal"
               ELSE IF v2d._x.val = v2d._y.val THEN "diagonal"
               ELSE "awesome"

\* C24 with the hashable Vector2d, the class bound when the function is defined
C24_HoldsForHashable ==
    v2dLast.op = "demo" /\ v2d.cls = "Vector2dHashable" =>
        /\ v2dLast.exc = "none"
        /\ v2dLast.printed =
               IF v2d._x.val = 0 /\ v2d._y.val = 0 THEN "null"
               ELSE IF v2d._x.val = 0 THEN "vertical"
               ELSE IF v2d._y.val = 0 THEN "horizontal"
               ELSE IF v2d._x.val = v2d._y.val THEN "diagonal"
               ELSE "awesome"

\* C24, the case chosen by version 3 before the report is printed
C24_Version3ChoosesOnXAlone ==
    v2dLast.op = "demo" /\ v2d.cls = "Vector2dV3" /\ "y" \notin DOMAIN v2d.dict =>
        v2dLast.case = IF v2d._x.val = 0 THEN "vertical" ELSE "awesome"
(***************************************************************************)
(* The card decks: FrenchDeck of the data-model chapter, and the patched   *)
(* FrenchDeck and FrenchDeck2 of the interfaces chapter.                   *)
(***************************************************************************)
\* [str(n) for n in range(2, 11)] + list("JQKA")
ranks == <<"2", "3", "4", "5", "6", "7", "8", "9", "10", "J", "Q", "K", "A">>

\* "spades diamonds clubs hearts".split()
suits == <<"spades", "diamonds", "clubs", "hearts">>

\* dict(spades=3, hearts=2, diamonds=1, clubs=0)
suit_values == [s \in {"spades", "hearts", "diamonds", "clubs"} |->
                   CASE s = "spades" -> 3 [] s = "hearts" -> 2
                     [] s = "diamonds" -> 1 [] OTHER -> 0]

\* the class made by collections.namedtuple("Card", ["rank", "suit"])
Card(rank, suit) == [rank |-> rank, suit |-> suit]

\* str.isidentifier, on the names used here
str_isidentifier(s) == s \in {"rank", "suit", "Card"}

\* the module's own namedtuple(typename, field_names): it checks the field
\* names and then falls off its end, so what it returns is None
namedtuple(typename, field_names) ==
    IF \E i \in DOMAIN field_names : ~str_isidentifier(field_names[i])
    THEN [exc |-> "ValueError", value |-> "None"]
    ELSE [exc |-> "none", value |-> "None"]

\* Card = namedtuple("Card", ["rank", "suit"]), the binding FrenchDeck2 sees
Card2 == namedtuple("Card", <<"rank", "suit">>).value

\* [f(a, b) for a in outer for b in inner] as a list
Product(outer, inner, f(_, _)) ==
    [k \in 1 .. Len(outer) * Len(inner) |->
        f(outer[((k - 1) \div Len(inner)) + 1], inner[((k - 1) % Len(inner)) + 1])]

\* FrenchDeck.__init__ of the data-model chapter: for rank ... for suit ...
FrenchDeck_init ==
    [exc |-> "none",
     obj |-> [cls |-> "FrenchDeck",
              _cards |-> Product(ranks, suits, LAMBDA r, s : Card(r, s))]]

\* FrenchDeck.__init__ of the interfaces chapter: for suit ... for rank ...
FrenchDeckPatched_init ==
    [exc |-> "none",
     obj |-> [cls |-> "FrenchDeckPatched",
              _cards |-> Product(suits, ranks, LAMBDA s, r : Card(r, s))]]

NoDeck == [cls |-> "none", _cards |-> <<>>]

\* FrenchDeck2.__init__: Card(rank, suit) calls what Card is bound to
FrenchDeck2_init ==
    IF Card2 = "None" THEN [exc |-> "TypeError", obj |-> NoDeck]
    ELSE [exc |-> "none",
          obj |-> [cls |-> "FrenchDeck2",
                   _cards |-> Product(suits, ranks, LAMBDA s, r : Card(r, s))]]

\* a list index counted from the end when negative
ListIndex(l, position) == IF position < 0 THEN position + Len(l) ELSE position

\* list.__setitem__
list_setitem(d, position, value) ==
    LET i == ListIndex(d._cards, position)
    IN  IF i < 0 \/ i >= Len(d._cards) THEN [exc |-> "IndexError", obj |-> d]
        ELSE [exc |-> "none", obj |-> [d EXCEPT !._cards[i + 1] = value]]

\* list.__delitem__
list_delitem(d, position) ==
    LET i == ListIndex(d._cards, position)
    IN  IF i < 0 \/ i >= Len(d._cards) THEN [exc |-> "IndexError", obj |-> d]
        ELSE [exc |-> "none",
              obj |-> [d EXCEPT !._cards = SubSeq(d._cards, 1, i) \o
                                           SubSeq(d._cards, i + 2, Len(d._cards))]]

\* list.insert: the position is clamped to the ends
list_insert(d, position, value) ==
    LET j == ListIndex(d._cards, position)
        i == IF j < 0 THEN 0 ELSE IF j > Len(d._cards) THEN Len(d._cards) ELSE j
    IN  [exc |-> "none",
         obj |-> [d EXCEPT !._cards = SubSeq(d._cards, 1, i) \o <<value>> \o
                                      SubSeq(d._cards, i + 1, Len(d._cards))]]

\* set_card, patched in as FrenchDeck.__setitem__
set_card(d, position, card) == list_setitem(d, position, card)

\* FrenchDeck2.__setitem__
FrenchDeck2_setitem(d, position, value) == list_setitem(d, position, value)

\* FrenchDeck2.__delitem__
FrenchDeck2_delitem(d, position) == list_delitem(d, position)

\* FrenchDeck2.insert
FrenchDeck2_insert(d, position, value) == list_insert(d, position, value)

\* list.index: the first place the value stands at
list_index(l, x) == (CHOOSE i \in DOMAIN l : l[i] = x /\ \A j \in 1 .. i - 1 : l[j] # x) - 1

\* spades_high without the suit
spades_high_RankOnly(card) ==
    LET rank_value == list_index(ranks, card.rank)
    IN  rank_value * Cardinality(DOMAIN suit_values)

\* spades_high
spades_high(card) ==
    LET rank_value == list_index(ranks, card.rank)
    IN  rank_value * Cardinality(DOMAIN suit_values) + suit_values[card.suit]

\* sorted(l, key=spades_high): stable, by insertion
RECURSIVE InsertBySpadesHigh(_, _)
InsertBySpadesHigh(l, x) ==
    IF l = <<>> THEN <<x>>
    ELSE IF spades_high(x) < spades_high(l[1]) THEN <<x>> \o l
    ELSE <<l[1]>> \o InsertBySpadesHigh(Tail(l), x)

RECURSIVE sorted_spades_high(_)
sorted_spades_high(l) ==
    IF l = <<>> THEN <<>>
    ELSE InsertBySpadesHigh(sorted_spades_high(SubSeq(l, 1, Len(l) - 1)), l[Len(l)])

DeckClasses ==
    CASE running = "FrenchDeck" -> {"FrenchDeck"}
      [] running = "FrenchDeck2" -> {"FrenchDeckPatched", "FrenchDeck2"}
      [] OTHER -> {}

DeckPositions == {0, 1, -1, 51, 52}

DeckCards == {Card("A", "spades"), Card("7", "beasts")}

\* what a statement raises on a class that lacks the method for it
MissingMethod == {"AttributeError", "TypeError"}

DeckIdle == [op |-> "idle", cls |-> "none", exc |-> "none", before |-> NoDeck,
             result |-> <<>>]

DeckInit ==
    /\ deck = NoDeck
    /\ deckLast = DeckIdle

\* deck = cls()
NewDeck(cls) ==
    /\ deck = NoDeck
    /\ LET r == CASE cls = "FrenchDeck" -> FrenchDeck_init
                  [] cls = "FrenchDeckPatched" -> FrenchDeckPatched_init
                  [] OTHER -> FrenchDeck2_init
       IN  /\ deck' = r.obj
           /\ deckLast' = [DeckIdle EXCEPT !.op = "new", !.cls = cls, !.exc = r.exc]
    /\ UNCHANGED OthersThanDeck

\* deck[position] = value
DeckSetItem(position, value) ==
    /\ running = "FrenchDeck2"
    /\ deck # NoDeck
    /\ LET r == IF deck.cls = "FrenchDeck2" THEN FrenchDeck2_setitem(deck, position, value)
                ELSE set_card(deck, position, value)
       IN  /\ deck' = r.obj
           /\ deckLast' = [DeckIdle EXCEPT !.op = "setitem", !.cls = deck.cls,
                                           !.exc = r.exc, !.before = deck]
    /\ UNCHANGED OthersThanDeck

\* del deck[position]
DeckDelItem(position, missing) ==
    /\ running = "FrenchDeck2"
    /\ deck # NoDeck
    /\ LET r == IF deck.cls = "FrenchDeck2" THEN FrenchDeck2_delitem(deck, position)
                ELSE [exc |-> missing, obj |-> deck]
       IN  /\ deck' = r.obj
           /\ deckLast' = [DeckIdle EXCEPT !.op = "delitem", !.cls = deck.cls,
                                           !.exc = r.exc, !.before = deck]
    /\ UNCHANGED OthersThanDeck

\* deck.insert(position, value)
DeckInsert(position, value) ==
    /\ running = "FrenchDeck2"
    /\ deck # NoDeck
    /\ LET r == IF deck.cls = "FrenchDeck2" THEN FrenchDeck2_insert(deck, position, value)
                ELSE [exc |-> "AttributeError", obj |-> deck]
       IN  /\ deck' = r.obj
           /\ deckLast' = [DeckIdle EXCEPT !.op = "insert", !.cls = deck.cls,
                                           !.exc = r.exc, !.before = deck]
    /\ UNCHANGED OthersThanDeck

\* sorted(deck, key=spades_high)
DeckSorted ==
    /\ running = "FrenchDeck"
    /\ deck # NoDeck
    /\ deckLast.op # "sorted"
    /\ deckLast' = [DeckIdle EXCEPT !.op = "sorted", !.cls = deck.cls, !.before = deck,
                                    !.result = sorted_spades_high(deck._cards)]
    /\ UNCHANGED <<deck, OthersThanDeck>>

DeckNext ==
    \/ \E cls \in DeckClasses : NewDeck(cls)
    \/ \E position \in DeckPositions, value \in DeckCards : DeckSetItem(position, value)
    \/ \E position \in DeckPositions, missing \in MissingMethod : DeckDelItem(position, missing)
    \/ \E position \in DeckPositions, value \in DeckCards : DeckInsert(position, value)
    \/ DeckSorted

\* the deck holds 52 cards, one for each rank and suit
FullDeck(cards) ==
    /\ Len(cards) = 52
    /\ \A i \in DOMAIN ranks, j \in DOMAIN suits :
           Cardinality({k \in DOMAIN cards : cards[k] = Card(ranks[i], suits[j])}) = 1

\* C25: FrenchDeck2() returns a deck of 52 cards, one per rank and suit, and
\* on it a replacement, a deletion and an insertion that succeed change the
\* length by 0, -1 and +1.
C25_FrenchDeck2Constructs ==
    /\ deckLast.op = "new" /\ deckLast.cls = "FrenchDeck2" =>
           deckLast.exc = "none" /\ deck.cls = "FrenchDeck2" /\ FullDeck(deck._cards)
    /\ deckLast.cls = "FrenchDeck2" /\ deckLast.exc = "none" =>
           /\ deckLast.op = "setitem" => Len(deck._cards) = Len(deckLast.before._cards)
           /\ deckLast.op = "delitem" => Len(deck._cards) = Len(deckLast.before._cards) - 1
           /\ deckLast.op = "insert" => Len(deck._cards) = Len(deckLast.before._cards) + 1

\* C25 on the deck that can be built, the patched FrenchDeck: 52 cards, and
\* a replacement keeps the length
C25_HoldsForPatchedDeck ==
    deck.cls = "FrenchDeckPatched" =>
        /\ deckLast.op = "new" => FullDeck(deck._cards)
        /\ Len(deck._cards) = 52

\* C28: a new FrenchDeck holds 52 cards, one per rank and suit; spades_high
\* gives different cards of the deck different values; sorted by it the deck
\* starts with the 2 of clubs and ends with the ace of spades.
C28_DeckAndSpadesHigh ==
    deck.cls = "FrenchDeck" =>
        /\ FullDeck(deck._cards)
        /\ \A i, j \in DOMAIN deck._cards :
               i # j => spades_high(deck._cards[i]) # spades_high(deck._cards[j])
        /\ deckLast.op = "sorted" =>
               /\ deckLast.result[1] = Card("2", "clubs")
               /\ deckLast.result[Len(deckLast.result)] = Card("A", "spades")
               /\ Len(deckLast.result) = 52

\* C28 witness: a FrenchDeck was built and sorted by spades_high
C28_SortedDeck ==
    /\ deck.cls = "FrenchDeck"
    /\ deckLast.op = "sorted"
    /\ Len(deckLast.result) = 52
(***************************************************************************)
(* StrKeyDict over collections.UserDict.  Keys are the [kind, v] records   *)
(* of the UpperCaseMixin section.                                          *)
(***************************************************************************)
\* str(key): a str is itself, an int becomes the str of its digits
str_of(key) == IF key.kind = "str" THEN key ELSE StrKey(key.v)

\* StrKeyDict.__contains__
StrKeyDict_contains(data, key) == str_of(key) \in DOMAIN data

\* an item assignment that keeps the key as given
StrKeyDict_setitem_KeyAsGiven(data, key, value) ==
    [x \in DOMAIN data \cup {key} |-> IF x = key THEN value ELSE data[x]]

\* StrKeyDict.__setitem__
StrKeyDict_setitem(data, key, value) ==
    [x \in DOMAIN data \cup {str_of(key)} |-> IF x = str_of(key) THEN value ELSE data[x]]

\* UserDict.__getitem__ hands a key not in self.data to __missing__, and
\* StrKeyDict.__missing__ looks a non-str key up again under its str
RECURSIVE StrKeyDict_getitem(_, _, _)
RECURSIVE StrKeyDict_missing(_, _, _)
StrKeyDict_missing(data, key, depth) ==
    IF key.kind = "str" THEN [exc |-> "KeyError", value |-> 0]
    ELSE StrKeyDict_getitem(data, str_of(key), depth + 1)

StrKeyDict_getitem(data, key, depth) ==
    IF depth >= RecursionLimit THEN [exc |-> "RecursionError", value |-> 0]
    ELSE IF key \in DOMAIN data THEN [exc |-> "none", value |-> data[key]]
    ELSE StrKeyDict_missing(data, key, depth)

\* MutableMapping.update from pairs, also run by UserDict.__init__
RECURSIVE StrKeyDict_update(_, _)
StrKeyDict_update(data, pairs) ==
    IF pairs = <<>> THEN data
    ELSE StrKeyDict_update(StrKeyDict_setitem(data, pairs[1].key, pairs[1].value),
                           Tail(pairs))

SkdKeys == { StrKey(<<"1">>), IntKey(<<"1">>), IntKey(<<"2">>), StrKey(<<"a">>) }

SkdValues == {1, 2}

SkdPairs == SeqsUpTo([key : SkdKeys, value : SkdValues], 2)

SkdIdle == [op |-> "idle", key |-> NoKey, exc |-> "none", value |-> 0, found |-> FALSE]

SkdInit ==
    /\ skd = [built |-> FALSE, data |-> <<>>]
    /\ skdLast = SkdIdle

\* d = StrKeyDict(pairs)
NewStrKeyDict(pairs) ==
    /\ running = "StrKeyDict"
    /\ ~skd.built
    /\ skd' = [built |-> TRUE, data |-> StrKeyDict_update(<<>>, pairs)]
    /\ skdLast' = [SkdIdle EXCEPT !.op = "new"]
    /\ UNCHANGED OthersThanSkd

\* d[key] = value
StrKeyDictAssign(key, value) ==
    /\ running = "StrKeyDict"
    /\ skd.built
    /\ skd' = [skd EXCEPT !.data = StrKeyDict_setitem(skd.data, key, value)]
    /\ skdLast' = [SkdIdle EXCEPT !.op = "setitem", !.key = key, !.value = value]
    /\ UNCHANGED OthersThanSkd

\* d.update(pairs)
StrKeyDictUpdate(pairs) ==
    /\ running = "StrKeyDict"
    /\ skd.built
    /\ skd' = [skd EXCEPT !.data = StrKeyDict_update(skd.data, pairs)]
    /\ skdLast' = [SkdIdle EXCEPT !.op = "update"]
    /\ UNCHANGED OthersThanSkd

\* d[key]
StrKeyDictLookup(key) ==
    /\ running = "StrKeyDict"
    /\ skd.built
    /\ LET r == StrKeyDict_getitem(skd.data, key, 0)
       IN  skdLast' = [SkdIdle EXCEPT !.op = "getitem", !.key = key,
                                      !.exc = r.exc, !.value = r.value]
    /\ UNCHANGED <<skd, OthersThanSkd>>

\* key in d
StrKeyDictContains(key) ==
    /\ running = "StrKeyDict"
    /\ skd.built
    /\ skdLast' = [SkdIdle EXCEPT !.op = "contains", !.key = key,
                                  !.found = StrKeyDict_contains(skd.data, key)]
    /\ UNCHANGED <<skd, OthersThanSkd>>

SkdNext ==
    \/ \E pairs \in SkdPairs : NewStrKeyDict(pairs)
    \/ \E key \in SkdKeys, value \in SkdValues : StrKeyDictAssign(key, value)
    \/ \E pairs \in SkdPairs : StrKeyDictUpdate(pairs)
    \/ \E key \in SkdKeys : StrKeyDictLookup(key)
    \/ \E key \in SkdKeys : StrKeyDictContains(key)

\* C26: every key stored in a StrKeyDict is a str; d[k] and k in d give for
\* a key k what they give for str(k); a lookup whose str(k) is not stored
\* ends with KeyError.
C26_KeysAreStrings ==
    /\ \A k \in DOMAIN skd.data : k.kind = "str"
    /\ skdLast.op = "getitem" =>
           /\ [exc |-> skdLast.exc, value |-> skdLast.value] =
                  StrKeyDict_getitem(skd.data, str_of(skdLast.key), 0)
           /\ str_of(skdLast.key) \notin DOMAIN skd.data => skdLast.exc = "KeyError"
           /\ str_of(skdLast.key) \in DOMAIN skd.data =>
                  skdLast.exc = "none" /\ skdLast.value = skd.data[str_of(skdLast.key)]
    /\ skdLast.op = "contains" =>
           skdLast.found = StrKeyDict_contains(skd.data, str_of(skdLast.key))

\* C26 witness: an int key was looked up and found under its str
C26_IntKeyFound ==
    /\ skdLast.op = "getitem"
    /\ skdLast.key.kind = "int"
    /\ skdLast.exc = "none"
    /\ StrKey(<<"2">>) \in DOMAIN skd.data
(***************************************************************************)
(* The max() of the type-hints chapter.  A series is the sequence of the   *)
(* items an iterable yields; key functions are named.                      *)
(***************************************************************************)
MaxSeriesLen == 3       \* longest series given to max()

MISSING == [given |-> FALSE, value |-> 0]

EMPTY_MSG == "max() arg is an empty sequence"

\* the key functions passed here: abs, and lambda x: x % 2
KeyFunctions == {"None", "abs", "mod2"}

ApplyKey(key, x) ==
    CASE key = "abs" -> IF x < 0 THEN -x ELSE x
      [] key = "mod2" -> x % 2
      [] OTHER -> x

\* a test that also replaces the candidate on equal keys
CandidateLess_OrEqual(candidate_key, current_key) == candidate_key <= current_key

\* if candidate < current / if candidate_key < current_key
CandidateLess(candidate_key, current_key) == candidate_key < current_key

\* the two for loops: with key None the items themselves are compared
RECURSIVE MaxLoop(_, _, _)
MaxLoop(candidate, series, key) ==
    IF series = <<>> THEN candidate
    ELSE LET current == series[1]
         IN  IF CandidateLess(ApplyKey(key, candidate), ApplyKey(key, current))
             THEN MaxLoop(current, Tail(series), key)
             ELSE MaxLoop(candidate, Tail(series), key)

\* max(first, *args, key=key, default=default); first is a series when
\* args is empty
max(first, args, key, default) ==
    IF args # <<>>
    THEN [exc |-> "none", msg |-> "", value |-> MaxLoop(first, args, key)]
    ELSE IF first = <<>>
         THEN IF default # MISSING
              THEN [exc |-> "none", msg |-> "", value |-> default.value]
              ELSE [exc |-> "ValueError", msg |-> EMPTY_MSG, value |-> 0]
         ELSE [exc |-> "none", msg |-> "", value |-> MaxLoop(first[1], Tail(first), key)]

MaxItems == {-2, 0, 1, 2}

MaxDefaults == {MISSING, [given |-> TRUE, value |-> 9]}

MaxIdle == [op |-> "idle", series |-> <<>>, key |-> "None", default |-> MISSING,
            exc |-> "none", msg |-> "", value |-> 0]

MaxInit == maxLast = MaxIdle

\* max(iterable, key=key, default=default), the one call of a run
MaxOfIterable(series, key, default) ==
    /\ running = "Max"
    /\ maxLast = MaxIdle
    /\ LET r == max(series, <<>>, key, default)
       IN  maxLast' = [op |-> "iterable", series |-> series, key |-> key,
                       default |-> default, exc |-> r.exc, msg |-> r.msg,
                       value |-> r.value]
    /\ UNCHANGED OthersThanMax

\* max(first, *args, key=key), the one call of a run
MaxOfArguments(series, key) ==
    /\ running = "Max"
    /\ maxLast = MaxIdle
    /\ Len(series) >= 2
    /\ LET r == max(series[1], Tail(series), key, MISSING)
       IN  maxLast' = [op |-> "arguments", series |-> series, key |-> key,
                       default |-> MISSING, exc |-> r.exc, msg |-> r.msg,
                       value |-> r.value]
    /\ UNCHANGED OthersThanMax

MaxNext ==
    \/ /\ running = "Max"
       /\ maxLast = MaxIdle
       /\ \E series \in SeqsUpTo(MaxItems, MaxSeriesLen), key \in KeyFunctions,
             default \in MaxDefaults : MaxOfIterable(series, key, default)
    \/ /\ running = "Max"
       /\ maxLast = MaxIdle
       /\ \E series \in SeqsUpTo(MaxItems, MaxSeriesLen), key \in KeyFunctions :
             MaxOfArguments(series, key)

\* C27: max returns the first item whose key is not less than the key of
\* any other item; on an empty iterable it returns the default if one was
\* given and otherwise raises ValueError('max() arg is an empty sequence').
C27_MaxReturnsFirstGreatest ==
    maxLast.op \in {"iterable", "arguments"} =>
        LET s == maxLast.series
            K(i) == ApplyKey(maxLast.key, s[i])
            Greatest(i) == \A j \in DOMAIN s : ~(K(i) < K(j))
        IN  IF s = <<>>
            THEN IF maxLast.default.given
                 THEN maxLast.exc = "none" /\ maxLast.value = maxLast.default.value
                 ELSE maxLast.exc = "ValueError" /\ maxLast.msg = "max() arg is an empty sequence"
            ELSE /\ maxLast.exc = "none"
                 /\ \E i \in DOMAIN s :
                        /\ Greatest(i)
                        /\ \A j \in 1 .. i - 1 : ~Greatest(j)
                        /\ maxLast.value = s[i]

\* C27 witness: a key was given and two items share the greatest key
C27_TieUnderKey ==
    /\ maxLast.op = "iterable"
    /\ maxLast.key = "abs"
    /\ maxLast.series = <<1, -2, 2>>
    /\ maxLast.value = -2
(***************************************************************************)
(* RandomPicker and SimplePicker.                                          *)
(***************************************************************************)
MaxPickerItems == 3     \* most items given to SimplePicker

PickerItems == {1, 2}

\* the members of the protocol RandomPicker
RandomPicker == {"pick"}

\* the attributes the class SimplePicker defines
SimplePicker == {"__init__", "pick", "test_isinstance", "test_item_type"}

\* isinstance(obj, protocol) of a runtime_checkable protocol: the object's
\* class has every member of the protocol
IsInstanceOfProtocol(cls, protocol) == protocol \subseteq cls

\* the orders random.shuffle can leave a list in
Shuffles(items) ==
    {p \in SeqsUpTo(Range(items), Len(items)) :
        /\ Len(p) = Len(items)
        /\ \A x \in Range(items) : Count(p, x) = Count(items, x)}

\* SimplePicker.__init__: list(items), then random.shuffle in place
SimplePicker_init(items, shuffled) == [built |-> TRUE, _items |-> shuffled]

\* a pick that leaves the item in the list
SimplePicker_pick_Peek(p) ==
    IF p._items = <<>> THEN [exc |-> "IndexError", value |-> 0, obj |-> p]
    ELSE [exc |-> "none", value |-> p._items[Len(p._items)], obj |-> p]

\* SimplePicker.pick: self._items.pop()
SimplePicker_pick(p) ==
    IF p._items = <<>> THEN [exc |-> "IndexError", value |-> 0, obj |-> p]
    ELSE [exc |-> "none", value |-> p._items[Len(p._items)],
          obj |-> [p EXCEPT !._items = SubSeq(p._items, 1, Len(p._items) - 1)]]

\* SimplePicker.test_isinstance: isinstance(SimplePicker([1]), RandomPicker)
SimplePicker_test_isinstance == IsInstanceOfProtocol(SimplePicker, RandomPicker)

NoPicker == [built |-> FALSE, _items |-> <<>>]

\* pickLast also keeps what was supplied and what has been returned so far
PickIdle == [op |-> "idle", exc |-> "none", value |-> 0, isinstance |-> FALSE,
             supplied |-> <<>>, returned |-> <<>>]

PickerInit ==
    /\ picker = NoPicker
    /\ pickLast = PickIdle

\* popper = SimplePicker(items)
NewPicker(items, shuffled) ==
    /\ running = "SimplePicker"
    /\ picker = NoPicker
    /\ shuffled \in Shuffles(items)
    /\ picker' = SimplePicker_init(items, shuffled)
    /\ pickLast' = [PickIdle EXCEPT !.op = "new", !.supplied = items]
    /\ UNCHANGED OthersThanPicker

\* item = popper.pick()
PickerPick ==
    /\ running = "SimplePicker"
    /\ picker.built
    /\ Len(pickLast.returned) <= Len(pickLast.supplied)
    /\ LET r == SimplePicker_pick(picker)
       IN  /\ picker' = r.obj
           /\ pickLast' = [pickLast EXCEPT !.op = "pick", !.exc = r.exc, !.value = r.value,
                               !.returned = IF r.exc = "none" THEN Append(@, r.value) ELSE @]
    /\ UNCHANGED OthersThanPicker

\* isinstance(popper, RandomPicker)
PickerIsInstance ==
    /\ running = "SimplePicker"
    /\ picker.built
    /\ pickLast' = [pickLast EXCEPT !.op = "isinstance", !.exc = "none",
                                    !.isinstance = SimplePicker_test_isinstance]
    /\ UNCHANGED <<picker, OthersThanPicker>>

PickerNext ==
    \/ /\ running = "SimplePicker"
       /\ \E items \in SeqsUpTo(PickerItems, MaxPickerItems) :
              \E shuffled \in Shuffles(items) : NewPicker(items, shuffled)
    \/ PickerPick
    \/ PickerIsInstance

\* C29: a pick that returns gives one of the items supplied at construction
\* and removes it, so no item is returned more often than it was supplied;
\* a SimplePicker is an instance of RandomPicker.
C29_PickReturnsSuppliedItem ==
    /\ pickLast.op = "pick" /\ pickLast.exc = "none" =>
           pickLast.value \in Range(pickLast.supplied)
    /\ \A x \in PickerItems :
           Count(pickLast.returned, x) + Count(picker._items, x) = Count(pickLast.supplied, x)
    /\ pickLast.op = "isinstance" => pickLast.isinstance

\* C29 witness: every supplied item has been picked, one of them twice
\* supplied and twice returned
C29_AllPicked ==
    /\ pickLast.op = "pick"
    /\ pickLast.exc = "none"
    /\ picker._items = <<>>
    /\ Count(pickLast.supplied, 1) = 2
    /\ Count(pickLast.returned, 1) = 2
(***************************************************************************)
(* The specification                                                       *)
(***************************************************************************)
Snippets == {"Tombola", "Deque", "Fibonacci", "Register", "Averager", "Bus", "TwilightBus", "Promotions", "Club", "Super", "Doppel", "UpperDict", "LastUpdated",
     "VectorSlice", "VectorHash", "VectorAttr", "VectorAbs", "VectorFormat", "Vector2d", "FrenchDeck", "FrenchDeck2", "StrKeyDict", "Max", "SimplePicker"}

Init ==
    /\ running \in Snippets
    /\ TombolaInit
    /\ DequeInit
    /\ FibInit
    /\ RegisterInit
    /\ AveragerInit
    /\ BusInit
    /\ PromoInit
    /\ ClubInit
    /\ MroInit
    /\ DoppelInit
    /\ UpperInit
    /\ LuodInit
    /\ VectorInit
    /\ VattrInit
    /\ V2dInit
    /\ DeckInit
    /\ SkdInit
    /\ MaxInit
    /\ PickerInit

Next ==
    \/ TombolaNext
    \/ DequeNext
    \/ FibNext
    \/ RegisterNext
    \/ AveragerNext
    \/ BusNext
    \/ TwilightNext
    \/ PromoNext
    \/ ClubNext
    \/ MroNext
    \/ DoppelNext
    \/ UpperNext
    \/ LuodNext
    \/ VectorNext
    \/ VattrNext
    \/ V2dNext
    \/ DeckNext
    \/ SkdNext
    \/ MaxNext
    \/ PickerNext

Spec == Init /\ [][Next]_vars

====
